---- MODULE Spec2Model ----
(***************************************************************************)
(* Interface registry of scapy/arch/windows/__init__.py:                   *)
(* NetworkInterface, NetworkInterfaceDict (IFACES) and the loopback        *)
(* reference scapy.consts.LOOPBACK_INTERFACE.                              *)
(*                                                                         *)
(* Python objects live in a heap (reference -> fields); the registry is    *)
(* an insertion-ordered dict of (key, reference) pairs.  Strings that the  *)
(* code takes apart (adapter identifiers, capture-device names) are        *)
(* sequences of tokens; strings that are only compared are TLA+ strings.   *)
(***************************************************************************)
EXTENDS Integers, Sequences, FiniteSets, TLC

\* ------------------------------------------------------------------ bounds
\* Longest adapter enumeration get_windows_if_list() returns.
MaxAdapters == 2
\* NetworkInterface objects a caller builds and keeps outside the registry.
MaxInterfaces == 2
\* Nested load() entries explored before a run is reported as not returning.
MaxLoadDepth == 3
\* update() calls counted on one interface
MaxUpdates == 2

\* --------------------------------------------------------- python values
\* None in a string-valued attribute / in a token-string attribute / as a
\* reference, and the ValueError a lookup raises.
NoneStr == "<None>"
NoneName == <<"<None>">>
NoneRef == 0
\* None in an attribute that otherwise holds a bool: <<>>, a bool b being <<b>>.
NoneBool == <<>>
NotFound == -1

\* scapy.consts.LOOPBACK_NAME
LOOPBACK_NAME == "Npcap Loopback Adapter"

\* conf.use_winpcapy, set at import time.
use_winpcapy == TRUE

\* ------------------------------------------------------- token strings
NPF == "\\Device\\NPF_"
NPF_UPPER == "\\DEVICE\\NPF_"

\* str.upper(), token by token.
upper_token(t) ==
    CASE t = NPF -> NPF_UPPER
      [] t = "{a}" -> "{A}"
      [] t = "{b}" -> "{B}"
      [] t = "{c}" -> "{C}"
      [] OTHER -> t

str_upper(s) == [i \in 1..Len(s) |-> upper_token(s[i])]

\* s.replace("\\DEVICE\\NPF_", "")
replace_npf(s) == SelectSeq(s, LAMBDA t: t # NPF_UPPER)

\* guid.upper().replace("\\DEVICE\\NPF_", "")
normalize_guid(guid) == replace_npf(str_upper(guid))

\* i.endswith(suffix)
endswith(i, suffix) ==
    /\ Len(suffix) <= Len(i)
    /\ SubSeq(i, Len(i) - Len(suffix) + 1, Len(i)) = suffix

\* ":" in x, for the addresses of the model.
has_colon(x) == x \in {"::", "::1", "fe80::1"}

\* Python truth value of a string attribute.
truthy(x) == x # NoneStr /\ x # ""

\* ------------------------------------------------- external collaborators
\* Records get_windows_if_list() can return (one per adapter).
AdapterA ==
    [name |-> "eth0", description |-> "Ethernet", win_index |-> 5,
     guid |-> <<"{A}">>, mac |-> "aa:aa:aa:aa:aa:aa",
     ipv4_metric |-> 10, ipv6_metric |-> 25,
     ips |-> <<"fe80::1", "192.168.1.50">>]

AdapterB ==
    [name |-> "wlan0", description |-> "eth0", win_index |-> 7,
     guid |-> <<"{B}">>, mac |-> "bb:bb:bb:bb:bb:bb",
     ipv4_metric |-> 25, ipv6_metric |-> 25,
     ips |-> <<"fe80::1">>]

AdapterLo ==
    [name |-> LOOPBACK_NAME, description |-> "Npcap Loopback", win_index |-> 3,
     guid |-> <<"{L}">>, mac |-> "",
     ipv4_metric |-> 75, ipv6_metric |-> 75,
     ips |-> <<"::1", "169.254.1.1">>]

\* The adapters of the host, in the order GetAdaptersAddresses() lists them.
AllAdapters == <<AdapterA, AdapterB, AdapterLo>>

Adapters == {AllAdapters[i] : i \in 1..Len(AllAdapters)}

\* The adapters at the positions S, in listing order.
listing(S) ==
    [k \in 1..Cardinality(S) |->
        AllAdapters[CHOOSE i \in S : Cardinality({j \in S : j <= i}) = k]]

\* What get_windows_if_list() can return: the adapters present at the time.
Enumerations ==
    {listing(S) : S \in {T \in SUBSET (1..Len(AllAdapters)) :
                             Cardinality(T) <= MaxAdapters}}

\* Device-name lists pcapdnet.get_if_list() can return.
DeviceLists ==
    { <<(<<NPF, "{A}">>)>>,
      <<(<<NPF, "{A}">>), (<<NPF, "{B}">>), (<<NPF, "{L}">>), (<<NPF, "{C}">>)>> }

\* The same, with the list of a host whose capture service is stopped.
AllDeviceLists == DeviceLists \cup {<<>>}

\* conf.cache_iflist: logical name -> (guid, ips), in iteration order.
CacheC == [name |-> "nap0", guid |-> <<NPF, "{C}">>, ips |-> <<"10.0.0.1">>]
CacheC2 == [name |-> "nap1", guid |-> <<"{c}">>, ips |-> <<"10.0.0.2">>]
CacheEth == [name |-> "eth0", guid |-> <<NPF, "{D}">>, ips |-> <<"10.0.0.3">>]
CacheA == [name |-> "napA", guid |-> <<NPF, "{A}">>, ips |-> <<"10.0.0.4">>]

Caches ==
    { <<>>, <<CacheA, CacheEth, CacheC, CacheC2>> }

\* ------------------------------------------------------------------ state
VARIABLES
    heap,                   \* reference -> NetworkInterface object (references 1..n)
    data,                   \* IFACES.data: sequence of [key, ref], insertion order
    LOOPBACK_INTERFACE,     \* scapy.consts.LOOPBACK_INTERFACE: reference or NoneRef
    has_restarted_adapter,  \* hasattr(IFACES, "restarted_adapter")
    restarted_adapter,      \* IFACES.restarted_adapter
    cache_iflist,           \* conf.cache_iflist
    os_access,              \* conf.prog.os_access
    use_npcap,              \* conf.use_npcap
    PY2,                    \* six.PY2: the interpreter is Python 2
    WINDOWS_XP,             \* scapy.consts.WINDOWS_XP
    last                    \* the last call: its name, arguments, result and effects

vars ==
    <<heap, data, LOOPBACK_INTERFACE, has_restarted_adapter, restarted_adapter,
      cache_iflist, os_access, use_npcap, PY2, WINDOWS_XP, last>>

\* ------------------------------------------------------- NetworkInterface
\* NetworkInterface.__init__ before update(): every attribute None, invalid False.
\* (guid and win_index do not exist yet; self.data is written and never read.)
new_interface ==
    [name |-> NoneStr, ip |-> NoneStr, mac |-> NoneStr, pcap_name |-> NoneName,
     description |-> NoneStr, invalid |-> FALSE,
     raw80211 |-> NoneBool, cache_mode |-> NoneBool,
     ipv4_metric |-> NoneRef, ipv6_metric |-> NoneRef, ips |-> <<>>,
     win_index |-> NoneRef, guid |-> NoneName]

is_invalid(self) == self.invalid

\* The first device name of get_if_list() ending with the identifier, if any.
first_match(devs, guid) ==
    LET hits == {i \in 1..Len(devs) : endswith(devs[i], guid)}
    IN IF hits = {} THEN 0 ELSE CHOOSE i \in hits : \A j \in hits : i <= j

_update_pcapdata(self, devs) ==
    IF is_invalid(self) THEN self
    ELSE LET m == first_match(devs, self.guid)
         IN IF m # 0 THEN [self EXCEPT !.pcap_name = devs[m]]
            ELSE [self EXCEPT !.invalid = TRUE]

\* next(x for x in self.ips if ":" not in x), or the old value on StopIteration.
first_ipv4(ips, old) ==
    LET hits == {i \in 1..Len(ips) : ~has_colon(ips[i])}
    IN IF hits = {} THEN old
       ELSE ips[CHOOSE i \in hits : \A j \in hits : i <= j]

update_without_loopback_override(self, d, devs) ==
    LET s1 == [self EXCEPT
                 !.name = IF "netid" \in DOMAIN d /\ d.netid = LOOPBACK_NAME
                          THEN LOOPBACK_NAME ELSE d.name,
                 !.description = d.description,
                 !.win_index = d.win_index,
                 !.guid = d.guid,
                 !.mac = d.mac,
                 !.ipv4_metric = d.ipv4_metric,
                 !.ipv6_metric = d.ipv6_metric,
                 !.ips = d.ips,
                 !.invalid = IF "invalid" \in DOMAIN d THEN d.invalid ELSE @]
        s2 == _update_pcapdata(s1, devs)
        s3 == [s2 EXCEPT !.ip = first_ipv4(s2.ips, @)]
    IN IF ~truthy(s3.ip) /\ s3.name = LOOPBACK_NAME
       THEN [s3 EXCEPT !.ip = "127.0.0.1"]
       ELSE s3

\* NetworkInterface.update(data), with devs what get_if_list() returns.
update(self, d, devs) ==
    LET s1 == [self EXCEPT
                 !.name = IF "netid" \in DOMAIN d /\ d.netid = LOOPBACK_NAME
                          THEN LOOPBACK_NAME ELSE d.name,
                 !.description = d.description,
                 !.win_index = d.win_index,
                 !.guid = d.guid,
                 !.mac = d.mac,
                 !.ipv4_metric = d.ipv4_metric,
                 !.ipv6_metric = d.ipv6_metric,
                 !.ips = d.ips,
                 !.invalid = IF "invalid" \in DOMAIN d THEN d.invalid ELSE @]
        s2 == _update_pcapdata(s1, devs)
    IN IF s2.name = LOOPBACK_NAME /\ use_npcap
       THEN [s2 EXCEPT !.mac = "00:00:00:00:00:00", !.ip = "127.0.0.1"]
       ELSE LET s3 == [s2 EXCEPT !.ip = first_ipv4(s2.ips, @)]
            IN IF ~truthy(s3.ip) /\ s3.name = LOOPBACK_NAME
               THEN [s3 EXCEPT !.ip = "127.0.0.1"]
               ELSE s3

\* NetworkInterface(data)
NetworkInterface(d, devs) == update(new_interface, d, devs)

\* --------------------------------------------------- NetworkInterfaceDict
keys(dict) == {dict[i].key : i \in 1..Len(dict)}
refs(dict) == {dict[i].ref : i \in 1..Len(dict)}

\* self.data[key] = ref: a present key keeps its place, a new key goes last.
dict_set(dict, key, ref) ==
    IF key \in keys(dict)
    THEN [i \in 1..Len(dict) |->
            IF dict[i].key = key THEN [key |-> key, ref |-> ref] ELSE dict[i]]
    ELSE Append(dict, [key |-> key, ref |-> ref])

\* next(...) over six.itervalues(self): the first of the positions hits whose
\* interface passes the test, 0 (StopIteration) when there is none.
first_index(hits) ==
    IF hits = {} THEN 0 ELSE CHOOSE i \in hits : \A j \in hits : i <= j

dev_from_name_by_name_only(h, dict, name) ==
    LET i == first_index({k \in 1..Len(dict) :
                 h[dict[k].ref].name = name})
    IN IF i = 0 THEN NotFound ELSE dict[i].ref

dev_from_name(h, dict, name) ==
    LET i == first_index({k \in 1..Len(dict) :
                 h[dict[k].ref].name = name \/ h[dict[k].ref].description = name})
    IN IF i = 0 THEN NotFound ELSE dict[i].ref

dev_from_pcapname_by_guid(h, dict, pcap_name) ==
    LET i == first_index({k \in 1..Len(dict) :
                 h[dict[k].ref].guid = pcap_name})
    IN IF i = 0 THEN NotFound ELSE dict[i].ref

dev_from_pcapname(h, dict, pcap_name) ==
    LET i == first_index({k \in 1..Len(dict) :
                 h[dict[k].ref].pcap_name = pcap_name})
    IN IF i = 0 THEN NotFound ELSE dict[i].ref

dev_from_index_valid_only(h, dict, lo, if_index) ==
    LET i == first_index({k \in 1..Len(dict) :
                 ~h[dict[k].ref].invalid /\ h[dict[k].ref].win_index = if_index})
    IN IF i # 0 THEN dict[i].ref
       ELSE IF if_index = 1 /\ lo # NoneRef THEN lo
       ELSE NotFound

dev_from_index_no_fallback(h, dict, lo, if_index) ==
    LET i == first_index({k \in 1..Len(dict) :
                 h[dict[k].ref].win_index = if_index})
    IN IF i # 0 THEN dict[i].ref ELSE NotFound

\* lo is scapy.consts.LOOPBACK_INTERFACE; isinstance(lo, NetworkInterface) is
\* lo # NoneRef, the only other value it takes being None.
dev_from_index(h, dict, lo, if_index) ==
    LET i == first_index({k \in 1..Len(dict) :
                 h[dict[k].ref].win_index = if_index})
    IN IF i # 0 THEN dict[i].ref
       ELSE IF if_index = 1 /\ lo # NoneRef THEN lo
       ELSE NotFound

\* ------------------------------------------------------------------ load()
\* A call in progress: the registry state it works on and what it has done.
\*   entries   load() entries so far          enums     enumerations obtained
\*   starts    service-start commands issued  messages  warnings and infos logged
\*   before    the registry (entries and objects) when the cache merge began
\*   returned  FALSE when the call was still re-entering load() at MaxLoadDepth
call_state ==
    [heap |-> heap, data |-> data, lo |-> LOOPBACK_INTERFACE,
     has_ra |-> has_restarted_adapter, ra |-> restarted_adapter,
     nextId |-> Len(heap) + 1,
     entries |-> 0, enums |-> <<>>, starts |-> 0, messages |-> <<>>,
     before |-> [data |-> <<>>, heap |-> <<>>], merged |-> FALSE,
     returned |-> TRUE]

\* interface = NetworkInterface(i); self.data[interface.guid] = interface
add_interface(s, d, devs) ==
    LET interface == NetworkInterface(d, devs)
    IN [s EXCEPT !.heap = @ @@ (s.nextId :> interface),
                 !.data = dict_set(@, interface.guid, s.nextId),
                 !.nextId = @ + 1]

\* for i in get_windows_if_list(): ...   (records k.. of the enumeration)
RECURSIVE load_enumerate(_, _, _, _)
load_enumerate(s, enum, k, devs) ==
    IF k > Len(enum) THEN s
    ELSE load_enumerate(add_interface(s, enum[k], devs), enum, k + 1, devs)

\* warning(msg), log_loading.info(msg)
warning(s, msg) == [s EXCEPT !.messages = Append(@, msg)]

\* Replace LOOPBACK_INTERFACE (the else branch of load).
load_loopback(s) ==
    LET r == dev_from_name(s.heap, s.data, LOOPBACK_NAME)
    IN IF r = NotFound THEN s ELSE [s EXCEPT !.lo = r]

\* The interface synthesized for one entry of conf.cache_iflist.
dummy_data(c) ==
    [name |-> c.name, description |-> "[Unknown] " \o c.name, win_index |-> -1,
     guid |-> normalize_guid(c.guid), invalid |-> FALSE,
     mac |-> "00:00:00:00:00:00", ipv4_metric |-> 0, ipv6_metric |-> 0,
     ips |-> c.ips]

merge_entry_unconditional(s, c, devs) ==
    add_interface(s, dummy_data(c), devs)

merge_entry_inverted(s, c, devs) ==
    IF normalize_guid(c.guid) \in keys(s.data)
    THEN add_interface(s, dummy_data(c), devs)
    ELSE s

\* One iteration of the merge loop.
merge_entry(s, c, devs) ==
    IF normalize_guid(c.guid) \notin keys(s.data)
    THEN add_interface(s, dummy_data(c), devs)
    ELSE s

\* for name, if_data in six.iteritems(conf.cache_iflist): ...
RECURSIVE load_merge_from(_, _, _)
load_merge_from(s, k, devs) ==
    IF k > Len(cache_iflist) THEN s
    ELSE load_merge_from(merge_entry(s, cache_iflist[k], devs), k + 1, devs)

load_merge(s, devs) ==
    load_merge_from(
        [s EXCEPT !.before = [data |-> s.data, heap |-> s.heap],
                  !.merged = TRUE],
        1, devs)

\* The merge for each list get_if_list() may return during it.
load_merge_any(s, lists) == {load_merge(s, devs) : devs \in lists}

\* self.restarted_adapter = True, after pcap_service_start()
mark_restarted_forgotten(s) == [s EXCEPT !.starts = @ + 1]

mark_restarted(s) ==
    [s EXCEPT !.starts = @ + 1, !.has_ra = TRUE, !.ra = TRUE]

RECURSIVE load(_)

\* The branch "if not self.data and conf.use_winpcapy": every outcome for the
\* answers of pcap_service_status() (detect), conf.interactive, _ask_user()
\* (confirm) and pcap_service_start() (succeed).
load_service(s, lists) ==
    UNION {
      IF ~detect /\ ~(s.has_ra /\ s.ra)
      THEN LET s1 == warning(s, "pcap service is not running")
           IN UNION {
                IF go
                THEN UNION {
                       IF succeed
                       THEN load(warning(mark_restarted(s1),
                                         "Pcap service started !"))
                       ELSE load_merge_any(
                                warning(mark_restarted(s1),
                                        "Could not start the pcap service"),
                                lists)
                       : succeed \in BOOLEAN }
                ELSE load_merge_any(
                         warning(s1, "Could not start the pcap service"), lists)
                : go \in {~interactive \/ confirm :
                            <<interactive, confirm>> \in BOOLEAN \X BOOLEAN} }
      ELSE load_merge_any(
               warning(s, "No match between pcap and windows interfaces"), lists)
      : detect \in BOOLEAN }

\* load() after the enumeration loop; lists holds what get_if_list() may return
\* in the rest of this call (one list when the loop has already asked for it).
load_after_enumeration(s, lists) ==
    IF s.data = <<>> /\ use_winpcapy
    THEN load_service(s, lists)
    ELSE load_merge_any(load_loopback(s), lists)

load_ignoring_os_access(s) ==
    IF s.entries >= MaxLoadDepth THEN {[s EXCEPT !.returned = FALSE]}
    ELSE LET s0 == [s EXCEPT !.entries = @ + 1]
         IN UNION {
              LET s1 == [s0 EXCEPT !.enums = Append(@, e)]
              IN IF e = <<>>
                 THEN load_after_enumeration(s1, DeviceLists)
                 ELSE UNION {
                        load_after_enumeration(
                            load_enumerate(s1, e, 1, devs), {devs})
                        : devs \in DeviceLists }
              : e \in Enumerations }

\* NetworkInterfaceDict.load(): the set of states it can return in, over every
\* answer of the collaborators.
load(s) ==
    IF s.entries >= MaxLoadDepth THEN {[s EXCEPT !.returned = FALSE]}
    ELSE LET s0 == [s EXCEPT !.entries = @ + 1]
         IN IF ~os_access THEN {s0}
            ELSE UNION {
                   LET s1 == [s0 EXCEPT !.enums = Append(@, e)]
                   IN IF e = <<>>
                      THEN load_after_enumeration(s1, DeviceLists)
                      ELSE UNION {
                             load_after_enumeration(
                                 load_enumerate(s1, e, 1, devs), {devs})
                             : devs \in DeviceLists }
                   : e \in Enumerations }

\* ---------------------------------------------------------------- actions
\* Objects no reference reaches any more are dropped, and the references that
\* stay are renumbered 1..n in order of age: only equality of references and
\* "older than" are observable.
live(dict, lo) == refs(dict) \cup ({lo} \ {NoneRef})

renamed(dict, lo, r) ==
    IF r \in live(dict, lo)
    THEN Cardinality({x \in live(dict, lo) : x <= r})
    ELSE NoneRef

compact_heap(h, dict, lo) ==
    [n \in 1..Cardinality(live(dict, lo)) |->
        h[CHOOSE x \in live(dict, lo) : renamed(dict, lo, x) = n]]

compact_dict(d, dict, lo) ==
    [i \in 1..Len(d) |-> [key |-> d[i].key, ref |-> renamed(dict, lo, d[i].ref)]]

\* What a finished load() leaves behind.  In the record of the call:
\*   fresh   the registry was empty when the call began
\*   old     the references of interfaces that existed before the call
\*   before  the registry entries, with their objects, when the cache merge began
load_returns(r, op) ==
    /\ heap' = compact_heap(r.heap, r.data, r.lo)
    /\ data' = compact_dict(r.data, r.data, r.lo)
    /\ LOOPBACK_INTERFACE' = renamed(r.data, r.lo, r.lo)
    /\ has_restarted_adapter' = r.has_ra
    /\ restarted_adapter' = r.ra
    /\ last' = [op |-> op, fresh |-> (data = <<>>),
                old |-> {renamed(r.data, r.lo, x) :
                           x \in {y \in live(r.data, r.lo) : y <= Len(heap)}},
                entries |-> r.entries, enums |-> r.enums, starts |-> r.starts,
                messages |-> r.messages,
                before |-> [i \in 1..Len(r.before.data) |->
                              [key |-> r.before.data[i].key,
                               ref |-> renamed(r.data, r.lo, r.before.data[i].ref),
                               iface |-> r.before.heap[r.before.data[i].ref]]],
                merged |-> r.merged, returned |-> r.returned]
    /\ UNCHANGED <<cache_iflist, os_access, use_npcap, PY2, WINDOWS_XP>>

\* IFACES.load() as the module calls it, once, right after IFACES is constructed.
Load ==
    /\ last.op = "init"
    /\ \E r \in load(call_state) : load_returns(r, "load")

reload_without_clear(s) == load([s EXCEPT !.has_ra = TRUE, !.ra = FALSE])

\* IFACES.reload(): restarted_adapter = False; data.clear(); load_winpcapy(); load()
reload(s) == load([s EXCEPT !.has_ra = TRUE, !.ra = FALSE, !.data = <<>>])

Reload ==
    \E r \in reload(call_state) : load_returns(r, "reload")

\* Arguments the lookups are called with.
LookupNames == {"eth0", LOOPBACK_NAME}
LookupPcapNames == { <<NPF, "{A}">>, NoneName }
LookupIndexes == {1, 5, 7}

\* A lookup changes nothing but the record of the last call.
looked_up(op, arg, ret) ==
    /\ last' = [op |-> op, arg |-> arg, ret |-> ret]
    /\ UNCHANGED <<heap, data, LOOPBACK_INTERFACE, has_restarted_adapter,
                   restarted_adapter, cache_iflist, os_access, use_npcap, PY2, WINDOWS_XP>>

DevFromName ==
    \E name \in LookupNames :
        looked_up("dev_from_name", name, dev_from_name(heap, data, name))

DevFromPcapname ==
    \E pcap_name \in LookupPcapNames :
        looked_up("dev_from_pcapname", pcap_name,
                  dev_from_pcapname(heap, data, pcap_name))

DevFromIndex ==
    \E if_index \in LookupIndexes :
        looked_up("dev_from_index", if_index,
                  dev_from_index(heap, data, LOOPBACK_INTERFACE, if_index))

\* conf.use_pcap, set to False when the module is imported.
use_pcap == FALSE

\* An interface argument: a NetworkInterface object (its reference) or a name.
iface_object(ref) == [isiface |-> TRUE, ref |-> ref, name |-> NoneStr]
iface_name(name) == [isiface |-> FALSE, ref |-> NoneRef, name |-> name]

\* pcapname(dev): the capture-device name (NoneName for None), or ValueError.
pcapname(h, dict, dev) ==
    IF dev.isiface
    THEN [raised |-> "none",
          name |-> IF is_invalid(h[dev.ref]) THEN NoneName
                   ELSE h[dev.ref].pcap_name]
    ELSE LET r == dev_from_name(h, dict, dev.name)
         IN IF r # NotFound
            THEN [raised |-> "none", name |-> h[r].pcap_name]
            ELSE IF use_pcap THEN [raised |-> "none", name |-> NoneName]
            ELSE [raised |-> "ValueError", name |-> NoneName]

\* mac2str(mac): the bytes of the address, written here as <<"mac2str", mac>>.
mac2str(mac) == <<"mac2str", mac>>

\* get_if_raw_hwaddr(iface): the address part of the pair it returns.
get_if_raw_hwaddr(h, dict, dev) ==
    LET name == pcapname(h, dict, dev)
    IN IF name.raised # "none"
       THEN [raised |-> name.raised, name |-> NoneName, found |-> NotFound,
             ret |-> <<>>]
       ELSE LET r == dev_from_pcapname(h, dict, name.name)
            IN IF r = NotFound
               THEN [raised |-> "ValueError", name |-> name.name,
                     found |-> NotFound, ret |-> <<>>]
               ELSE [raised |-> "none", name |-> name.name, found |-> r,
                     ret |-> mac2str(h[r].mac)]

\* get_if_raw_hwaddr(iface) for an interface held in the registry.
GetIfRawHwaddr ==
    \E ref \in refs(data) :
        LET r == get_if_raw_hwaddr(heap, data, iface_object(ref))
        IN /\ last' = [op |-> "get_if_raw_hwaddr", arg |-> ref,
                       raised |-> r.raised, name |-> r.name, found |-> r.found,
                       ret |-> r.ret]
           /\ UNCHANGED <<heap, data, LOOPBACK_INTERFACE, has_restarted_adapter,
                          restarted_adapter, cache_iflist, os_access, use_npcap,
                          PY2, WINDOWS_XP>>

\* route_add_loopback(): the adapter it builds.
LOOPBACK_GUID == <<"{0XX}">>

loopback_data ==
    [name |-> LOOPBACK_NAME, description |-> "Loopback", win_index |-> -1,
     guid |-> LOOPBACK_GUID, invalid |-> TRUE, mac |-> "00:00:00:00:00:00",
     ipv4_metric |-> 0, ipv6_metric |-> 0, ips |-> <<"127.0.0.1", "::">>]

loopback_adapter ==
    LET adapter == update([new_interface EXCEPT !.pcap_name = <<NPF>> \o LOOPBACK_GUID],
                          loopback_data, <<>>)
    IN [adapter EXCEPT !.invalid = FALSE, !.ip = "127.0.0.1"]

\* route_add_loopback(routes, ipv6, iflist).  The routing tables belong to
\* conf.route / conf.route6: has_routes says whether the one looked at is non-empty.
\* With an iflist the adapter is only named in it and then dropped.
RouteAddLoopback ==
    \E has_routes \in BOOLEAN, iflist \in BOOLEAN :
      /\ IF has_routes /\ ~iflist
         THEN LET new == Len(heap) + 1
                  kept == SelectSeq(data, LAMBDA e : heap[e.ref].name # LOOPBACK_NAME)
                  d2 == dict_set(kept, LOOPBACK_GUID, new)
                  h2 == heap @@ (new :> loopback_adapter)
              IN /\ heap' = compact_heap(h2, d2, new)
                 /\ data' = compact_dict(d2, d2, new)
                 /\ LOOPBACK_INTERFACE' = renamed(d2, new, new)
         ELSE UNCHANGED <<heap, data, LOOPBACK_INTERFACE>>
      /\ last' = [op |-> "route_add_loopback", injected |-> (has_routes /\ ~iflist)]
      /\ UNCHANGED <<has_restarted_adapter, restarted_adapter, cache_iflist,
                     os_access, use_npcap, PY2, WINDOWS_XP>>

\* ------------------------------------------- interfaces outside the registry
\* The adapter's current attributes as an enumeration record.
own_data(self) ==
    [name |-> self.name, description |-> self.description,
     win_index |-> self.win_index, guid |-> self.guid, mac |-> self.mac,
     ipv4_metric |-> self.ipv4_metric, ipv6_metric |-> self.ipv6_metric,
     ips |-> self.ips]

\* Records an interface is built from: get_windows_if_list(), load()'s dummy_data
\* and route_add_loopback()'s data.
InterfaceData ==
    Adapters \cup {dummy_data(CacheC)} \cup {loopback_data}

\* iface = NetworkInterface(d), kept by the caller.  The record of the call says
\* whether _update_pcapdata went through the device list (scanned).
Construct ==
    \E d \in InterfaceData, devs \in AllDeviceLists :
        /\ Len(heap) < MaxInterfaces
        /\ heap' = Append(heap, NetworkInterface(d, devs))
        /\ last' = [op |-> "construct", ref |-> Len(heap) + 1, devs |-> devs,
                    scanned |-> ~("invalid" \in DOMAIN d /\ d.invalid)]
        /\ UNCHANGED <<data, LOOPBACK_INTERFACE, has_restarted_adapter,
                       restarted_adapter, cache_iflist, os_access, use_npcap, PY2, WINDOWS_XP>>

\* iface.update(d): the adapter's record again, or a new record for its identifier.
Update ==
    \E ref \in DOMAIN heap, devs \in AllDeviceLists :
      \E d \in {own_data(heap[ref])} \cup {x \in InterfaceData : x.guid = heap[ref].guid} :
        /\ heap' = [heap EXCEPT ![ref] = update(@, d, devs)]
        /\ last' = [op |-> "update", ref |-> ref, devs |-> devs,
                    scanned |-> ~(IF "invalid" \in DOMAIN d THEN d.invalid
                                  ELSE heap[ref].invalid)]
        /\ UNCHANGED <<data, LOOPBACK_INTERFACE, has_restarted_adapter,
                       restarted_adapter, cache_iflist, os_access, use_npcap, PY2, WINDOWS_XP>>

InitIface ==
    /\ heap = <<>>
    /\ data = <<>>
    /\ LOOPBACK_INTERFACE = NoneRef
    /\ has_restarted_adapter = FALSE
    /\ restarted_adapter = FALSE
    /\ cache_iflist = <<>>
    /\ os_access = TRUE
    /\ use_npcap \in BOOLEAN
    /\ PY2 = FALSE
    /\ WINDOWS_XP = FALSE
    /\ last = [op |-> "init"]

NextIface ==
    \/ Construct
    \/ Update

SpecIface == InitIface /\ [][NextIface]_vars

\* ------------------------------------------------ one interface over time
\* The record of an adapter while it has no IPv4 address, and while it has
\* another one first: get_ips() lists the addresses the adapter has at the time.
without_ipv4(d) ==
    [d EXCEPT !.ips = SelectSeq(@, LAMBDA x : has_colon(x))]

with_ipv4_first(d, x) == [d EXCEPT !.ips = <<x>> \o @]

\* The records get_windows_if_list() gives for the adapter A and for the
\* loopback adapter as their addresses change.
AddressData ==
    { AdapterA, without_ipv4(AdapterA), with_ipv4_first(AdapterA, "10.0.0.1"),
      AdapterLo, without_ipv4(AdapterLo) }

\* iface = NetworkInterface(d) and iface.update(d) on that one interface.  The
\* record of the call keeps the MAC address of d (mac) and the interface's
\* primary address when the call began (ip).
ConstructOne ==
    \E d \in AddressData, devs \in AllDeviceLists :
        /\ heap = <<>>
        /\ heap' = <<NetworkInterface(d, devs)>>
        /\ last' = [op |-> "construct", ref |-> 1, mac |-> d.mac, ip |-> NoneStr,
                    updates |-> 0]
        /\ UNCHANGED <<data, LOOPBACK_INTERFACE, has_restarted_adapter,
                       restarted_adapter, cache_iflist, os_access, use_npcap,
                       PY2, WINDOWS_XP>>

UpdateOne ==
    \E d \in {x \in AddressData : heap # <<>> /\ x.guid = heap[1].guid},
       devs \in AllDeviceLists :
        /\ heap' = <<update(heap[1], d, devs)>>
        /\ last' = [op |-> "update", ref |-> 1, mac |-> d.mac, ip |-> heap[1].ip,
                    updates |-> IF last.updates < MaxUpdates
                                THEN last.updates + 1 ELSE MaxUpdates]
        /\ UNCHANGED <<data, LOOPBACK_INTERFACE, has_restarted_adapter,
                       restarted_adapter, cache_iflist, os_access, use_npcap,
                       PY2, WINDOWS_XP>>

NextAddress ==
    \/ ConstructOne
    \/ UpdateOne

SpecAddress == InitIface /\ [][NextAddress]_vars

\* The registry as constructed (IFACES = NetworkInterfaceDict()), before the
\* module's first IFACES.load().
Init ==
    /\ heap = <<>>
    /\ data = <<>>
    /\ LOOPBACK_INTERFACE = NoneRef
    /\ has_restarted_adapter = FALSE
    /\ restarted_adapter = FALSE
    /\ cache_iflist \in Caches
    /\ os_access \in BOOLEAN
    /\ use_npcap = TRUE
    /\ PY2 = FALSE
    /\ WINDOWS_XP = FALSE
    /\ last = [op |-> "init"]

Next ==
    \/ Load
    \/ Reload
    \/ DevFromName
    \/ DevFromPcapname
    \/ DevFromIndex
    \/ GetIfRawHwaddr
    \/ RouteAddLoopback

Spec == Init /\ [][Next]_vars

\* ----------------------------------------------------------- routing tables
\* Longest forward table GetIpForwardTable() / GetIpForwardTable2() returns.
MaxTable == 2

\* An adapter whose only IPv4 address is the unspecified address.
AdapterZero ==
    [name |-> "tun0", description |-> "Tunnel", win_index |-> 8,
     guid |-> <<"{Z}">>, mac |-> "",
     ipv4_metric |-> 5, ipv6_metric |-> 15,
     ips |-> <<"0.0.0.0", "fe80::2">>]

\* Enumerations the registry read by the route builders was loaded from.
RouteEnumerations ==
    { <<AdapterA, AdapterZero>>,
      <<AdapterA, AdapterB, AdapterLo>>,
      <<AdapterZero, AdapterLo>> }

\* get_windows_if_list() reports both interface metrics as 0 on Windows XP.
xp_metrics(enum) ==
    [k \in 1..Len(enum) |->
        IF WINDOWS_XP THEN [enum[k] EXCEPT !.ipv4_metric = 0, !.ipv6_metric = 0]
        ELSE enum[k]]

\* A load() call on the registry as constructed.
empty_call ==
    [heap |-> <<>>, data |-> <<>>, lo |-> NoneRef, has_ra |-> FALSE, ra |-> FALSE,
     nextId |-> 1, entries |-> 1, enums |-> <<>>, starts |-> 0, messages |-> <<>>,
     before |-> [data |-> <<>>, heap |-> <<>>], merged |-> FALSE, returned |-> TRUE]

\* The registry load() leaves for a non-empty enumeration and an empty cache.
registry_of(enum, devs) ==
    load_loopback(load_enumerate(empty_call, enum, 1, devs))

\* Rows of the forward tables: interface index, destination prefix, prefix
\* length, next hop and raw route metric.
Route4Default ==
    [ifIndex |-> 5, dest |-> "0.0.0.0", netmask |-> 0,
     nexthop |-> "192.168.1.1", metric |-> 256]
Route4Unresolved ==
    [ifIndex |-> 9, dest |-> "10.0.0.0", netmask |-> 8,
     nexthop |-> "0.0.0.0", metric |-> 20]
Route4Zero ==
    [ifIndex |-> 8, dest |-> "172.16.0.0", netmask |-> 16,
     nexthop |-> "0.0.0.0", metric |-> 30]
Route4Loopback ==
    [ifIndex |-> 1, dest |-> "127.0.0.0", netmask |-> 8,
     nexthop |-> "0.0.0.0", metric |-> 50]

Route6LinkLocal ==
    [ifIndex |-> 5, dest |-> "fe80::", netmask |-> 64,
     nexthop |-> "::", metric |-> 256]
Route6Unresolved ==
    [ifIndex |-> 9, dest |-> "2001:db8::", netmask |-> 32,
     nexthop |-> "::", metric |-> 20]
Route6Zero ==
    [ifIndex |-> 8, dest |-> "fe80::", netmask |-> 64,
     nexthop |-> "::", metric |-> 30]
Route6LoopbackDefault ==
    [ifIndex |-> 1, dest |-> "::", netmask |-> 0,
     nexthop |-> "::", metric |-> 50]
Route6LoopbackHost ==
    [ifIndex |-> 3, dest |-> "::1", netmask |-> 128,
     nexthop |-> "::", metric |-> 60]

Routes4 == {Route4Default, Route4Unresolved, Route4Zero, Route4Loopback}
Routes6 ==
    {Route6LinkLocal, Route6Unresolved, Route6Zero, Route6LoopbackDefault,
     Route6LoopbackHost}

\* Forward tables of at most MaxTable rows.
tables(rows) ==
    UNION {[1..n -> rows] : n \in 0..MaxTable}

\* Where a collaborator raises while a table is built: nowhere, in the
\* forward-table call, or while a row is processed.
Failures == {"none", "table", "route"}

\* IPv6 addresses construct_source_candidate_set() may accept as source.
Ipv6Addresses == {"fe80::1", "fe80::2", "::1"}

\* atol(dest), itom(netmask): the packed address and mask.
atol(x) == <<"atol", x>>
itom(x) == <<"itom", x>>

skipped_unresolved_only(h, iface) == iface = NotFound

\* The row is passed over (continue): dev_from_index raised ValueError, or the
\* interface's primary IPv4 address is the unspecified address.
skipped(h, iface) ==
    IF iface = NotFound THEN TRUE ELSE h[iface].ip = "0.0.0.0"

\* for route in GetIpForwardTable(): ...   (rows k.. of the table)
\* A route carries the position of the row it was built from (entry).
RECURSIVE _read_routes_c_v1_loop(_, _, _, _, _, _)
_read_routes_c_v1_loop(h, dict, lo, table, k, routes) ==
    IF k > Len(table) THEN routes
    ELSE LET route == table[k]
             iface == dev_from_index(h, dict, lo, route.ifIndex)
         IN IF skipped(h, iface)
            THEN _read_routes_c_v1_loop(h, dict, lo, table, k + 1, routes)
            ELSE _read_routes_c_v1_loop(h, dict, lo, table, k + 1,
                     Append(routes,
                            [dest |-> route.dest, netmask |-> route.netmask,
                             nexthop |-> route.nexthop, iface |-> iface,
                             ip |-> h[iface].ip,
                             metric |-> route.metric + h[iface].ipv4_metric,
                             entry |-> k]))

\* _read_routes_c_v1(): the routes, or the exception a collaborator raised.
_read_routes_c_v1(h, dict, lo, table, fail) ==
    IF fail # "none" THEN [raised |-> TRUE, routes |-> <<>>]
    ELSE [raised |-> FALSE,
          routes |-> _read_routes_c_v1_loop(h, dict, lo, table, 1, <<>>)]

\* in6_getscope(ip)
in6_getscope(ip) ==
    CASE ip = "::1" -> "loopback"
      [] ip \in {"fe80::1", "fe80::2"} -> "linklocal"
      [] OTHER -> "global"

\* get_ips(v6=True) flattened by in6_getifaddr(): (ip, scope, iface) for the
\* registry entries i.., each with its addresses from position j on.
RECURSIVE in6_getifaddr_from(_, _, _, _)
in6_getifaddr_from(h, dict, i, j) ==
    IF i > Len(dict) THEN <<>>
    ELSE LET ips == h[dict[i].ref].ips
         IN IF j > Len(ips) THEN in6_getifaddr_from(h, dict, i + 1, 1)
            ELSE IF has_colon(ips[j])
            THEN <<[ip |-> ips[j], scope |-> in6_getscope(ips[j]),
                    iface |-> dict[i].ref]>>
                 \o in6_getifaddr_from(h, dict, i, j + 1)
            ELSE in6_getifaddr_from(h, dict, i, j + 1)

\* in6_getifaddr()
in6_getifaddr(h, dict, lo) ==
    in6_getifaddr_from(h, dict, 1, 1)
    \o (IF use_npcap /\ lo # NoneRef
        THEN <<[ip |-> "::1", scope |-> "loopback", iface |-> lo]>>
        ELSE <<>>)

\* construct_source_candidate_set(dpref, dp, devaddrs): the addresses of
\* devaddrs it accepts, accepted being the choice of that function.
construct_source_candidate_set(devaddrs, accepted) ==
    LET kept == SelectSeq(devaddrs, LAMBDA x : x.ip \in accepted)
    IN [n \in 1..Len(kept) |-> kept[n].ip]

\* _append_route6(routes, dpref, dp, nh, iface, lifaddr, metric)
_append_route6_without_filter(h, routes, route, k, iface, lifaddr, metric, accepted) ==
    LET cset == IF h[iface].name = LOOPBACK_NAME THEN <<"::1">>
                ELSE construct_source_candidate_set(
                         SelectSeq(lifaddr, LAMBDA x : x.iface = iface), accepted)
    IN Append(routes,
              [dest |-> route.dest, netmask |-> route.netmask,
               nexthop |-> route.nexthop, iface |-> iface, cset |-> cset,
               metric |-> metric, entry |-> k])

_append_route6(h, routes, route, k, iface, lifaddr, metric, accepted) ==
    IF h[iface].name = LOOPBACK_NAME /\ route.dest = "::" THEN routes
    ELSE LET cset == IF h[iface].name = LOOPBACK_NAME THEN <<"::1">>
                     ELSE construct_source_candidate_set(
                              SelectSeq(lifaddr, LAMBDA x : x.iface = iface),
                              accepted)
         IN IF cset = <<>> THEN routes
            ELSE Append(routes,
                        [dest |-> route.dest, netmask |-> route.netmask,
                         nexthop |-> route.nexthop, iface |-> iface,
                         cset |-> cset, metric |-> metric, entry |-> k])

interface_metric_ipv4_only(self, ipv6) == self.ipv4_metric

\* getattr(iface, metric_name)
interface_metric(self, ipv6) ==
    IF ipv6 THEN self.ipv6_metric ELSE self.ipv4_metric

\* for route in GetIpForwardTable2(af): ...   (rows k.. of the table)
RECURSIVE _read_routes_c_loop(_, _, _, _, _, _, _, _, _)
_read_routes_c_loop(ipv6, h, dict, lo, table, k, routes, lifaddr, accepted) ==
    IF k > Len(table) THEN routes
    ELSE LET route == table[k]
             iface == dev_from_index(h, dict, lo, route.ifIndex)
         IN IF skipped(h, iface)
            THEN _read_routes_c_loop(ipv6, h, dict, lo, table, k + 1, routes,
                                     lifaddr, accepted)
            ELSE LET metric == route.metric + interface_metric(h[iface], ipv6)
                 IN _read_routes_c_loop(ipv6, h, dict, lo, table, k + 1,
                        IF ipv6
                        THEN _append_route6(h, routes, route, k, iface, lifaddr,
                                            metric, accepted)
                        ELSE Append(routes,
                                    [dest |-> atol(route.dest),
                                     netmask |-> itom(route.netmask),
                                     nexthop |-> route.nexthop, iface |-> iface,
                                     ip |-> h[iface].ip, metric |-> metric,
                                     entry |-> k]),
                        lifaddr, accepted)

\* _read_routes_c(ipv6): the routes, or the exception a collaborator raised.
_read_routes_c(ipv6, h, dict, lo, table, fail, accepted) ==
    IF fail # "none" THEN [raised |-> TRUE, routes |-> <<>>]
    ELSE [raised |-> FALSE,
          routes |-> _read_routes_c_loop(ipv6, h, dict, lo, table, 1, <<>>,
                         IF ipv6 THEN in6_getifaddr(h, dict, lo) ELSE <<>>,
                         accepted)]

\* The try/except of read_routes() and read_routes6() around the builder's
\* outcome r: what the caller gets.
caught_uncaught(r, msg) ==
    [raised |-> r.raised, routes |-> r.routes, warnings |-> <<>>]

caught(r, msg) ==
    IF r.raised
    THEN [raised |-> FALSE, routes |-> <<>>, warnings |-> <<msg>>]
    ELSE [raised |-> FALSE, routes |-> r.routes, warnings |-> <<>>]

\* read_routes()
read_routes(h, dict, lo, table, fail) ==
    LET r == caught(IF WINDOWS_XP
                    THEN _read_routes_c_v1(h, dict, lo, table, fail)
                    ELSE _read_routes_c(FALSE, h, dict, lo, table, fail, {}),
                    "Error building scapy IPv4 routing table")
    IN IF r.warnings = <<>> /\ r.routes = <<>> /\ ~r.raised
       THEN [r EXCEPT !.warnings = <<"No default IPv4 routes found">>]
       ELSE r

\* read_routes6()
read_routes6(h, dict, lo, table, fail, accepted) ==
    IF WINDOWS_XP THEN [raised |-> FALSE, routes |-> <<>>, warnings |-> <<>>]
    ELSE caught(_read_routes_c(TRUE, h, dict, lo, table, fail, accepted),
                "Error building scapy IPv6 routing table")

\* What a route reader leaves behind: nothing but the record of the call.
routes_read(op, ipv6, table, fail, r) ==
    /\ last' = [op |-> op, ipv6 |-> ipv6, table |-> table, fail |-> fail,
                routes |-> r.routes, warnings |-> r.warnings,
                raised |-> r.raised]
    /\ UNCHANGED <<heap, data, LOOPBACK_INTERFACE, has_restarted_adapter,
                   restarted_adapter, cache_iflist, os_access, use_npcap, PY2,
                   WINDOWS_XP>>

\* routes = read_routes(), on the registry the module loaded.
ReadRoutes ==
    /\ last.op = "init"
    /\ \E table \in tables(Routes4), fail \in Failures :
         /\ fail = "route" => table # <<>>
         /\ routes_read("read_routes", FALSE, table, fail,
                        read_routes(heap, data, LOOPBACK_INTERFACE, table, fail))

\* routes6 = read_routes6(), on the registry the module loaded.
ReadRoutes6 ==
    /\ last.op = "init"
    /\ \E table \in tables(Routes6), fail \in Failures,
          accepted \in {{}, {"fe80::1"}, Ipv6Addresses} :
         /\ fail = "route" => table # <<>>
         /\ routes_read("read_routes6", TRUE, table, fail,
                        read_routes6(heap, data, LOOPBACK_INTERFACE, table, fail,
                                     accepted))

\* The registry after the module's IFACES.load(), for each enumeration, device
\* list, backend and Windows release.
InitRoutes ==
    /\ cache_iflist = <<>>
    /\ os_access = TRUE
    /\ use_npcap \in BOOLEAN
    /\ PY2 = FALSE
    /\ WINDOWS_XP \in BOOLEAN
    /\ has_restarted_adapter = FALSE
    /\ restarted_adapter = FALSE
    /\ \E enum \in RouteEnumerations, devs \in DeviceLists :
         LET r == registry_of(xp_metrics(enum), devs)
         IN /\ heap = compact_heap(r.heap, r.data, r.lo)
            /\ data = compact_dict(r.data, r.data, r.lo)
            /\ LOOPBACK_INTERFACE = renamed(r.data, r.lo, r.lo)
    /\ last = [op |-> "init"]

NextRoutes ==
    \/ ReadRoutes
    \/ ReadRoutes6

SpecRoutes == InitRoutes /\ [][NextRoutes]_vars

\* ------------------------------------------------------ wireless operations
\* str.lower(), token by token.
lower_token(tok) ==
    CASE tok = "{A}" -> "{a}"
      [] tok = "{B}" -> "{b}"
      [] tok = "{C}" -> "{c}"
      [] OTHER -> tok

str_lower(s) == [i \in 1..Len(s) |-> lower_token(s[i])]

\* sub in s
contains(s, sub) ==
    \E i \in 1..(Len(s) - Len(sub) + 1) : SubSeq(s, i, i + Len(sub) - 1) = sub

\* Whitespace, and data.strip()
Whitespace == {"\r\n", " "}

RECURSIVE lstrip(_)
lstrip(s) ==
    IF s # <<>> /\ Head(s) \in Whitespace THEN lstrip(Tail(s)) ELSE s

RECURSIVE rstrip(_)
rstrip(s) ==
    IF s # <<>> /\ s[Len(s)] \in Whitespace
    THEN rstrip(SubSeq(s, 1, Len(s) - 1)) ELSE s

strip(s) == lstrip(rstrip(s))

\* What _get_npcap_dot11_adapters() can return: None when the registry has no
\* Dot11Adapters value, or the value.
AllowLists == { NoneName, <<"\\Device\\", "{a}", ";">>, <<"\\Device\\", "{B}">> }

\* How the helper process (WlanHelper through cmd / powershell) can end: exit
\* code and standard output.
HelperOutcomes ==
    { [returncode |-> 0, stdout |-> <<>>],
      [returncode |-> 0, stdout |-> <<"Success", "\r\n">>],
      [returncode |-> 0, stdout |-> <<"monitor", "\r\n">>],
      [returncode |-> 0, stdout |-> <<"11", "\r\n">>],
      [returncode |-> 1, stdout |-> <<>>] }

\* Python values: None, a bool, an int, a str or bytes (both token sequences).
py_none == [type |-> "NoneType", bool |-> FALSE, int |-> 0, str |-> <<>>]
py_bool(b) == [py_none EXCEPT !.type = "bool", !.bool = b]
py_int(n) == [py_none EXCEPT !.type = "int", !.int = n]
py_str(s) == [py_none EXCEPT !.type = "str", !.str = s]
py_bytes(s) == [py_none EXCEPT !.type = "bytes", !.str = s]

\* _exec_cmd(command), proc being how the process ended.
_exec_cmd(proc) ==
    IF proc.returncode # 0 THEN py_bytes(<<"error">>) ELSE py_bytes(proc.stdout)

\* b == s for bytes b and a str s: never equal on Python 3, where bytes is not
\* str; equal contents on Python 2.
bytes_eq_str(b, s) == PY2 /\ b.str = s.str

\* not b, for bytes b
not_bytes(b) == b.str = <<>>

\* int(b) for bytes b: the number, or ValueError.
is_number(b) == b.str = <<"11">>
int(b) == py_int(11)

\* The outcome of a method call: the object afterwards, the exception raised
\* ("none" when it returned), the value returned, the helper commands issued
\* (each with how its process ended), the answers obtained from
\* _get_npcap_dot11_adapters() and the errors logged.
outcome(self, raised, ret, commands, asked, errors) ==
    [self |-> self, raised |-> raised, ret |-> ret, commands |-> commands,
     asked |-> asked, errors |-> errors]

CapabilityErrors == {"OSError", "Scapy_Exception"}

_check_npcap_requirement_uncached(self) ==
    IF ~use_npcap
    THEN {outcome(self, "OSError", py_none, <<>>, <<>>, 0)}
    ELSE { LET raw80211 == dot11adapters # NoneName
                           /\ contains(str_lower(dot11adapters), str_lower(self.guid))
           IN outcome([self EXCEPT !.raw80211 = <<raw80211>>],
                      IF raw80211 THEN "none" ELSE "Scapy_Exception",
                      py_none, <<>>, <<dot11adapters>>, 0)
           : dot11adapters \in AllowLists }

\* NetworkInterface._check_npcap_requirement(): one outcome for each answer of
\* _get_npcap_dot11_adapters() when it is asked.
_check_npcap_requirement(self) ==
    IF ~use_npcap
    THEN {outcome(self, "OSError", py_none, <<>>, <<>>, 0)}
    ELSE IF self.raw80211 = NoneBool
    THEN { LET raw80211 == dot11adapters # NoneName
                           /\ contains(str_lower(dot11adapters), str_lower(self.guid))
           IN outcome([self EXCEPT !.raw80211 = <<raw80211>>],
                      IF raw80211 THEN "none" ELSE "Scapy_Exception",
                      py_none, <<>>, <<dot11adapters>>, 0)
           : dot11adapters \in AllowLists }
    ELSE {outcome(self, IF self.raw80211[1] THEN "none" ELSE "Scapy_Exception",
                  py_none, <<>>, <<>>, 0)}

\* A helper command as issued: set or get, the key, the value, whether it is
\* wrapped by _encapsulate_admin, and how its process ended.
command(kind, key, val, proc) ==
    [kind |-> kind, key |-> key, val |-> val, admin |-> (kind = "set"),
     proc |-> proc]

\* NetworkInterface._npcap_set(key, val): res = not _exec_cmd(...)
_npcap_set(self, key, val, proc) ==
    outcome(self, "none", py_bool(not_bytes(_exec_cmd(proc))),
            <<command("set", key, val, proc)>>, <<>>, 0)

\* NetworkInterface._npcap_get(key): _exec_cmd(...).strip()
_npcap_get(self, key, proc) ==
    outcome(self, "none", py_bytes(strip(_exec_cmd(proc).str)),
            <<command("get", key, py_none, proc)>>, <<>>, 0)

\* self._check_npcap_requirement(); return self._npcap_get(key)
checked_get(self, key) ==
    UNION { IF c.raised # "none" THEN {c}
            ELSE { [_npcap_get(c.self, key, proc) EXCEPT !.asked = c.asked]
                   : proc \in HelperOutcomes }
            : c \in _check_npcap_requirement(self) }

\* self._check_npcap_requirement(); return self._npcap_set(key, val)
checked_set(self, key, val) ==
    UNION { IF c.raised # "none" THEN {c}
            ELSE { [_npcap_set(c.self, key, val, proc) EXCEPT !.asked = c.asked]
                   : proc \in HelperOutcomes }
            : c \in _check_npcap_requirement(self) }

\* int(r), for the outcome r of a getter.
as_int(r) ==
    IF r.raised # "none" THEN r
    ELSE IF is_number(r.ret) THEN [r EXCEPT !.ret = int(r.ret)]
    ELSE [r EXCEPT !.raised = "ValueError", !.ret = py_none]

\* NetworkInterface.mode(), channel(), frequence(), modulation()
mode(self) == checked_get(self, "mode")
channel(self) == {as_int(r) : r \in checked_get(self, "channel")}
frequence(self) == {as_int(r) : r \in checked_get(self, "freq")}
modulation(self) == checked_get(self, "modu")

\* _modes and _modus, the tables of setmode() and setmodulation()
_modes ==
    [n \in 0..5 |->
        CASE n = 0 -> "managed" [] n = 1 -> "monitor" [] n = 2 -> "master"
          [] n = 3 -> "wfd_device" [] n = 4 -> "wfd_owner"
          [] n = 5 -> "wfd_client"]

_modus ==
    [n \in 0..10 |->
        CASE n = 0 -> "dsss" [] n = 1 -> "fhss" [] n = 2 -> "irbaseband"
          [] n = 3 -> "ofdm" [] n = 4 -> "hrdss" [] n = 5 -> "erp"
          [] n = 6 -> "ht" [] n = 7 -> "vht" [] n = 8 -> "ihv"
          [] n = 9 -> "mimo-ofdm" [] n = 10 -> "mimo-ofdm"]

\* isinstance(x, int): a bool is an int, True being 1 and False 0.
isinstance_int(x) == x.type \in {"int", "bool"}
int_value(x) == IF x.type = "bool" THEN (IF x.bool THEN 1 ELSE 0) ELSE x.int

lookup_without_default(table, x) ==
    IF isinstance_int(x) /\ int_value(x) \in DOMAIN table
    THEN py_str(<<table[int_value(x)]>>)
    ELSE x

\* table.get(x, "unknown") if isinstance(x, int) else x
lookup(table, x) ==
    IF isinstance_int(x)
    THEN IF int_value(x) \in DOMAIN table
         THEN py_str(<<table[int_value(x)]>>) ELSE py_str(<<"unknown">>)
    ELSE x

\* str(x), for the channels and frequencies of the model.
str(x) ==
    IF x.type = "int"
    THEN CASE x.int = 6 -> py_str(<<"6">>)
           [] x.int = 2437 -> py_str(<<"2437">>)
           [] OTHER -> py_str(<<"?">>)
    ELSE x

\* NetworkInterface.setmode(mode), setchannel(channel), setfrequence(freq),
\* setmodulation(modu)
setmode(self, m) == checked_set(self, "mode", lookup(_modes, m))
setchannel(self, ch) == checked_set(self, "channel", str(ch))
setfrequence(self, freq) == checked_set(self, "freq", str(freq))
setmodulation(self, modu) == checked_set(self, "modu", str(lookup(_modus, modu)))

ismonitor_uncached(self) ==
    { IF r.raised = "Scapy_Exception"
      THEN [r EXCEPT !.raised = "none", !.ret = py_bool(FALSE)]
      ELSE IF r.raised # "none" THEN r
      ELSE LET res == bytes_eq_str(r.ret, py_str(<<"monitor">>))
           IN [r EXCEPT !.self.cache_mode = <<res>>, !.ret = py_bool(res)]
      : r \in mode(self) }

\* NetworkInterface.ismonitor()
ismonitor(self) ==
    IF self.cache_mode # NoneBool
    THEN {outcome(self, "none", py_bool(self.cache_mode[1]), <<>>, <<>>, 0)}
    ELSE { IF r.raised = "Scapy_Exception"
           THEN [r EXCEPT !.raised = "none", !.ret = py_bool(FALSE)]
           ELSE IF r.raised # "none" THEN r
           ELSE LET res == bytes_eq_str(r.ret, py_str(<<"monitor">>))
                IN [r EXCEPT !.self.cache_mode = <<res>>, !.ret = py_bool(res)]
           : r \in mode(self) }

setmonitor_unset_on_failure(self, enable) ==
    { IF r.raised # "none" THEN r
      ELSE [r EXCEPT !.self.cache_mode =
                         IF r.ret.bool THEN <<enable>> ELSE NoneBool,
                     !.errors = IF r.ret.bool THEN 0 ELSE 1]
      : r \in setmode(self, py_str(IF enable THEN <<"monitor">>
                                    ELSE <<"managed">>)) }

setmonitor_caching_result(self, enable) ==
    { IF r.raised # "none" THEN r
      ELSE [r EXCEPT !.self.cache_mode = <<r.ret.bool>>,
                     !.errors = IF r.ret.bool THEN 0 ELSE 1]
      : r \in setmode(self, py_str(IF enable THEN <<"monitor">>
                                    ELSE <<"managed">>)) }

\* NetworkInterface.setmonitor(enable)
setmonitor(self, enable) ==
    { IF r.raised # "none" THEN r
      ELSE [r EXCEPT !.self.cache_mode =
                         <<IF enable THEN r.ret.bool ELSE ~r.ret.bool>>,
                     !.errors = IF r.ret.bool THEN 0 ELSE 1]
      : r \in setmode(self, py_str(IF enable THEN <<"monitor">>
                                    ELSE <<"managed">>)) }

\* The interface the wireless operations are called on.
iface == heap[1]

\* What a wireless call leaves behind.  In the record of the call:
\*   before   the interface's raw80211 and cache_mode when the call began
\*   consults how often _get_npcap_dot11_adapters() has been asked so far
\*   follows  for ismonitor(): <<res>> when the call before it was a
\*            setmonitor(True) that returned res, <<>> otherwise
called(op, arg, r) ==
    /\ heap' = [heap EXCEPT ![1] = r.self]
    /\ last' = [op |-> op, arg |-> arg, raised |-> r.raised, ret |-> r.ret,
                commands |-> r.commands, asked |-> r.asked,
                errors |-> r.errors,
                before |-> [raw80211 |-> iface.raw80211,
                            cache_mode |-> iface.cache_mode],
                consults |-> (IF last.op = "init" THEN 0 ELSE last.consults)
                             + Len(r.asked),
                follows |-> IF /\ op = "ismonitor"
                               /\ last.op = "setmonitor"
                               /\ last.arg.bool
                               /\ last.raised = "none"
                            THEN <<last.ret.bool>> ELSE <<>>]
    /\ UNCHANGED <<data, LOOPBACK_INTERFACE, has_restarted_adapter,
                   restarted_adapter, cache_iflist, os_access, use_npcap, PY2,
                   WINDOWS_XP>>

Ismonitor == \E r \in ismonitor(iface) : called("ismonitor", py_none, r)

Setmonitor ==
    \E enable \in BOOLEAN :
        \E r \in setmonitor(iface, enable) :
            called("setmonitor", py_bool(enable), r)

Mode == \E r \in mode(iface) : called("mode", py_none, r)

Channel == \E r \in channel(iface) : called("channel", py_none, r)

Frequence == \E r \in frequence(iface) : called("frequence", py_none, r)

Modulation == \E r \in modulation(iface) : called("modulation", py_none, r)

\* Arguments of setmode(): integers in and around the table, and strings.
ModeArguments ==
    {py_int(n) : n \in -1..6} \cup {py_str(<<"managed">>), py_str(<<"adhoc">>)}

\* Arguments of setmodulation(): integers in and around the table, and a string.
ModulationArguments ==
    {py_int(n) : n \in -1..11} \cup {py_str(<<"ofdm">>)}

Setmode ==
    \E m \in ModeArguments :
        \E r \in setmode(iface, m) : called("setmode", m, r)

Setchannel ==
    \E r \in setchannel(iface, py_int(6)) : called("setchannel", py_int(6), r)

Setfrequence ==
    \E r \in setfrequence(iface, py_int(2437)) :
        called("setfrequence", py_int(2437), r)

Setmodulation ==
    \E modu \in ModulationArguments :
        \E r \in setmodulation(iface, modu) :
            called("setmodulation", modu, r)

\* kargs.get("monitor", None), kargs being <<>> or <<value of "monitor">>
get_monitor(kargs) == IF kargs = <<>> THEN py_none ELSE kargs[1]

\* x is not y: None, True and False are single objects, and an int is never
\* the object True or False.
is_not(x, y) == x # y

\* bool(x), as "if enable:" takes it
bool(x) ==
    CASE x.type = "bool" -> x.bool
      [] x.type = "int" -> x.int # 0
      [] x.type = "NoneType" -> FALSE
      [] OTHER -> x.str # <<>>

\* One step of open_pcap as its collaborators see it: a call of ismonitor()
\* (arg is what it returned), of setmonitor(arg) or of the capture subsystem's
\* open_pcap (name and kargs).
event(ev, arg, name, kargs) ==
    [ev |-> ev, arg |-> arg, name |-> name, kargs |-> kargs]

\* The outcome of open_pcap: as for a method call, with the reference of the
\* interface worked on (NoneRef when there is none) and the steps taken.
opened(r, ref, trace) ==
    [self |-> r.self, raised |-> r.raised, ret |-> r.ret,
     commands |-> r.commands, asked |-> r.asked, errors |-> r.errors,
     ref |-> ref, trace |-> trace]

\* return _orig_open_pcap(iface_pcap_name, *args, **kargs), after the outcome r
_orig_open_pcap(r, ref, trace, name, kargs) ==
    opened([r EXCEPT !.ret = py_str(<<"handle">>)], ref,
           Append(trace, event("open", py_none, name, kargs)))

open_pcap_without_setmonitor(h, ref, name, kargs) ==
    UNION {
      IF m.raised # "none"
      THEN {opened(m, ref, <<event("ismonitor", m.ret, NoneName, <<>>)>>)}
      ELSE {_orig_open_pcap(m, ref,
                            <<event("ismonitor", m.ret, NoneName, <<>>)>>, name,
                            IF get_monitor(kargs) = py_none
                            THEN <<m.ret>> ELSE kargs)}
      : m \in ismonitor(h[ref]) }

\* The branch of open_pcap taken for a NetworkInterface under Npcap.
open_pcap_monitor(h, ref, name, kargs) ==
    UNION {
      LET monitored == m.ret
          kw_monitor == get_monitor(kargs)
          t1 == <<event("ismonitor", m.ret, NoneName, <<>>)>>
      IN IF m.raised # "none" THEN {opened(m, ref, t1)}
         ELSE IF kw_monitor = py_none
         THEN {_orig_open_pcap(m, ref, t1, name, <<monitored>>)}
         ELSE IF is_not(kw_monitor, monitored)
         THEN { LET t2 == Append(t1, event("setmonitor", kw_monitor, NoneName, <<>>))
                    r == [s EXCEPT !.commands = m.commands \o @,
                                   !.asked = m.asked \o @,
                                   !.errors = m.errors + @]
                IN IF s.raised # "none" THEN opened(r, ref, t2)
                   ELSE _orig_open_pcap(r, ref, t2, name, kargs)
                : s \in setmonitor(m.self, bool(kw_monitor)) }
         ELSE {_orig_open_pcap(m, ref, t1, name, kargs)}
      : m \in ismonitor(h[ref]) }

\* open_pcap(iface, **kargs)
open_pcap(h, dict, dev, kargs) ==
    LET iface_pcap_name == pcapname(h, dict, dev)
        nothing == outcome(new_interface, "none", py_none, <<>>, <<>>, 0)
    IN IF iface_pcap_name.raised # "none"
       THEN {opened([nothing EXCEPT !.raised = iface_pcap_name.raised],
                    NoneRef, <<>>)}
       ELSE LET ref == IF dev.isiface THEN dev.ref
                       ELSE IF iface_pcap_name.name # NoneName
                       THEN dev_from_name(h, dict, dev.name)
                       ELSE NoneRef
            IN IF use_npcap /\ ref # NoneRef
               THEN open_pcap_monitor(h, ref, iface_pcap_name.name, kargs)
               ELSE {_orig_open_pcap(nothing, NoneRef, <<>>,
                                     iface_pcap_name.name, kargs)}

\* How open_pcap is called: with the interface or a name, and with or without
\* a monitor option.
OpenTargets == {iface_object(1), iface_name("eth0"), iface_name("nope")}
MonitorOptions == {<<>>, <<py_bool(TRUE)>>, <<py_bool(FALSE)>>, <<py_int(1)>>}

OpenPcap ==
    \E dev \in OpenTargets, kargs \in MonitorOptions :
        \E r \in open_pcap(heap, data, dev, kargs) :
            /\ heap' = IF r.ref = NoneRef THEN heap
                       ELSE [heap EXCEPT ![r.ref] = r.self]
            /\ last' = [op |-> "open_pcap", arg |-> get_monitor(kargs),
                        raised |-> r.raised, ret |-> r.ret,
                        commands |-> r.commands, asked |-> r.asked,
                        errors |-> r.errors,
                        before |-> [raw80211 |-> iface.raw80211,
                                    cache_mode |-> iface.cache_mode],
                        consults |-> (IF last.op = "init" THEN 0
                                      ELSE last.consults) + Len(r.asked),
                        follows |-> <<>>,
                        dev |-> dev, kargs |-> kargs, ref |-> r.ref,
                        name |-> pcapname(heap, data, dev).name,
                        trace |-> r.trace]
            /\ UNCHANGED <<data, LOOPBACK_INTERFACE, has_restarted_adapter,
                           restarted_adapter, cache_iflist, os_access,
                           use_npcap, PY2, WINDOWS_XP>>

\* One interface, built from the adapter A while its capture device exists and
\* held in the registry under its identifier.
InitWifi ==
    /\ use_npcap \in BOOLEAN
    /\ PY2 \in BOOLEAN
    /\ WINDOWS_XP = FALSE
    /\ heap = <<NetworkInterface(AdapterA, << <<NPF, "{A}">> >>)>>
    /\ data = <<[key |-> heap[1].guid, ref |-> 1]>>
    /\ LOOPBACK_INTERFACE = NoneRef
    /\ has_restarted_adapter = FALSE
    /\ restarted_adapter = FALSE
    /\ cache_iflist = <<>>
    /\ os_access = TRUE
    /\ last = [op |-> "init"]

NextWifi ==
    \/ Ismonitor
    \/ Setmonitor
    \/ Mode
    \/ Channel
    \/ Frequence
    \/ Modulation
    \/ Setmode
    \/ Setchannel
    \/ Setfrequence
    \/ Setmodulation
    \/ OpenPcap

SpecWifi == InitWifi /\ [][NextWifi]_vars

\* ------------------------------------------- the adapter's mode followed
\* The helper commands of the outcome r that set the mode and whose process
\* exited with code 0: the adapter took the mode.
modes_applied(r) ==
    SelectSeq(r.commands,
              LAMBDA c : c.kind = "set" /\ c.key = "mode" /\ c.proc.returncode = 0)

\* The mode the adapter was last put in, <<>> while none was set.
mode_after(before, r) ==
    IF modes_applied(r) = <<>> THEN before
    ELSE modes_applied(r)[Len(modes_applied(r))].val.str

\* Every helper command of the outcome r succeeded: it exited with code 0, a
\* set command was reported successful (no output), and a mode query answered
\* with the mode the adapter was put in, when there is one.
helper_succeeded(before, r) ==
    \A k \in 1..Len(r.commands) :
        LET c == r.commands[k]
        IN /\ c.proc.returncode = 0
           /\ c.kind = "set" => c.proc.stdout = <<>>
           /\ (c.kind = "get" /\ c.key = "mode" /\ before # <<>>) =>
                strip(c.proc.stdout) = before

\* A wireless call with the adapter's mode followed.  In the record of the call:
\*   mode_set  the mode last successfully set on the adapter, <<>> if none
\*   all_ok    every helper command so far succeeded
followed(op, arg, r) ==
    LET mode_before == IF last.op = "init" THEN <<>> ELSE last.mode_set
        ok_before == IF last.op = "init" THEN TRUE ELSE last.all_ok
    IN /\ heap' = [heap EXCEPT ![1] = r.self]
       /\ last' = [op |-> op, arg |-> arg, raised |-> r.raised, ret |-> r.ret,
                   commands |-> r.commands,
                   before |-> [raw80211 |-> iface.raw80211,
                               cache_mode |-> iface.cache_mode],
                   mode_set |-> mode_after(mode_before, r),
                   all_ok |-> ok_before /\ helper_succeeded(mode_before, r)]
       /\ UNCHANGED <<data, LOOPBACK_INTERFACE, has_restarted_adapter,
                      restarted_adapter, cache_iflist, os_access, use_npcap, PY2,
                      WINDOWS_XP>>

FollowIsmonitor ==
    \E r \in ismonitor(iface) : followed("ismonitor", py_none, r)

FollowSetmonitor ==
    \E enable \in BOOLEAN :
        \E r \in setmonitor(iface, enable) :
            followed("setmonitor", py_bool(enable), r)

FollowSetmode ==
    \E m \in {py_int(0), py_int(1), py_str(<<"managed">>), py_str(<<"monitor">>)} :
        \E r \in setmode(iface, m) : followed("setmode", m, r)

NextMonitor ==
    \/ FollowIsmonitor
    \/ FollowSetmonitor
    \/ FollowSetmode

SpecMonitor == InitWifi /\ [][NextMonitor]_vars

\* ------------------------------------------------ adapter normalisation
\* MAX_ADAPTER_ADDRESS_LENGTH, the size of a raw record's physical_address.
MAX_ADAPTER_ADDRESS_LENGTH == 8

\* "%02x" % byte
HexDigits ==
    <<"0", "1", "2", "3", "4", "5", "6", "7", "8", "9", "a", "b", "c", "d", "e", "f">>

hex2(byte) == HexDigits[(byte \div 16) + 1] \o HexDigits[(byte % 16) + 1]

\* str2mac(s): the bytes of s as two hex digits each, joined by colons.
RECURSIVE str2mac(_)
str2mac(s) ==
    IF s = <<>> THEN ""
    ELSE IF Len(s) = 1 THEN hex2(s[1])
    ELSE hex2(s[1]) \o ":" \o str2mac(Tail(s))

_get_mac_any_length(x) ==
    str2mac(SubSeq(x.physical_address, 1, x.physical_address_length))

\* get_windows_if_list._get_mac(x)
_get_mac(x) ==
    LET size == x.physical_address_length
    IN IF size # 6 THEN ""
       ELSE str2mac(SubSeq(x.physical_address, 1, size))

\* The InterfaceInfo get_windows_if_list() makes of one raw record (its index,
\* MAC and metrics; the texts and the address list are not followed here).
interface_info(x) ==
    [win_index |-> x.interface_index,
     mac |-> _get_mac(x),
     ipv4_metric |-> IF WINDOWS_XP THEN 0 ELSE x.ipv4_metric,
     ipv6_metric |-> IF WINDOWS_XP THEN 0 ELSE x.ipv6_metric]

\* get_windows_if_list() over what GetAdaptersAddresses() returned.
get_windows_if_list(raw) == [k \in 1..Len(raw) |-> interface_info(raw[k])]

\* Raw adapter records: any address length the buffer allows, the first bytes
\* of the address varying.
AddressBytes == {0, 10, 255}

RawAdapters ==
    { [interface_index |-> 5, ipv4_metric |-> 10, ipv6_metric |-> 25,
       physical_address_length |-> n,
       physical_address |-> <<a, b, c, 171, 1, 35, 69, 103>>]
      : n \in 0..MAX_ADAPTER_ADDRESS_LENGTH,
        a \in AddressBytes, b \in AddressBytes, c \in AddressBytes }

GetWindowsIfList ==
    \E x \in RawAdapters :
        /\ last' = [op |-> "get_windows_if_list", raw |-> <<x>>,
                    ret |-> get_windows_if_list(<<x>>)]
        /\ UNCHANGED <<heap, data, LOOPBACK_INTERFACE, has_restarted_adapter,
                       restarted_adapter, cache_iflist, os_access, use_npcap,
                       PY2, WINDOWS_XP>>

InitNormalizer ==
    /\ heap = <<>>
    /\ data = <<>>
    /\ LOOPBACK_INTERFACE = NoneRef
    /\ has_restarted_adapter = FALSE
    /\ restarted_adapter = FALSE
    /\ cache_iflist = <<>>
    /\ os_access = TRUE
    /\ use_npcap = TRUE
    /\ PY2 = FALSE
    /\ WINDOWS_XP \in BOOLEAN
    /\ last = [op |-> "init"]

NextNormalizer == GetWindowsIfList

SpecNormalizer == InitNormalizer /\ [][NextNormalizer]_vars

\* ----------------------------------------------------------------- claims
\* Positions of the registry whose interface carries the name, as display name
\* or as description / carries the capture-device name / carries the index.
named(name) ==
    {i \in 1..Len(data) :
        heap[data[i].ref].name = name \/ heap[data[i].ref].description = name}

captured_as(pcap_name) ==
    {i \in 1..Len(data) : heap[data[i].ref].pcap_name = pcap_name}

indexed(if_index) ==
    {i \in 1..Len(data) : heap[data[i].ref].win_index = if_index}

\* ret is the registry entry at the least position of a non-empty set hits.
first_of(hits, ret) ==
    \E i \in hits : data[i].ref = ret /\ \A j \in hits : i <= j

\* C1: dev_from_name(name) returns the first registry entry whose display name
\* or description equals name, raises ValueError exactly when no entry matches,
\* and leaves the registry as it was.
C1_DevFromName ==
    /\ [](last.op = "dev_from_name" =>
            /\ (last.ret = NotFound) <=> (named(last.arg) = {})
            /\ named(last.arg) # {} => first_of(named(last.arg), last.ret))
    /\ [][last'.op = "dev_from_name" =>
            heap' = heap /\ data' = data
            /\ LOOPBACK_INTERFACE' = LOOPBACK_INTERFACE]_vars

\* Two entries match "eth0", one by name and one by description; the first is returned.
C1_Witness ==
    /\ last.op = "dev_from_name"
    /\ Cardinality(named(last.arg)) >= 2
    /\ \E i, j \in named(last.arg) :
         /\ heap[data[i].ref].name = last.arg
         /\ heap[data[j].ref].name # last.arg
    /\ last.ret # NotFound

\* C2: dev_from_pcapname(captureName) returns an entry whose capture-device name
\* equals captureName when one exists, raises ValueError exactly when none does,
\* and leaves the registry as it was.
C2_DevFromPcapname ==
    /\ [](last.op = "dev_from_pcapname" =>
            /\ (last.ret = NotFound) <=> (captured_as(last.arg) = {})
            /\ captured_as(last.arg) # {} =>
                 /\ last.ret \in refs(data)
                 /\ heap[last.ret].pcap_name = last.arg)
    /\ [][last'.op = "dev_from_pcapname" =>
            heap' = heap /\ data' = data
            /\ LOOPBACK_INTERFACE' = LOOPBACK_INTERFACE]_vars

\* A valid interface is found by its capture-device name among several entries.
C2_Witness ==
    /\ last.op = "dev_from_pcapname"
    /\ last.arg # NoneName
    /\ last.ret # NotFound
    /\ Len(data) >= 2

\* C3: for an index other than 1, dev_from_index returns the entry with that
\* index, valid or invalid, and raises ValueError when no entry has it.
C3_DevFromIndex ==
    (last.op = "dev_from_index" /\ last.arg # 1) =>
        /\ indexed(last.arg) # {} => first_of(indexed(last.arg), last.ret)
        /\ indexed(last.arg) = {} => last.ret = NotFound

\* A (index 5) is valid, B (index 7) is invalid, and dev_from_index(7) returns B.
C3_Witness ==
    /\ last.op = "dev_from_index"
    /\ last.arg = 7
    /\ last.ret # NotFound
    /\ heap[last.ret].invalid
    /\ \E i \in indexed(5) : ~heap[data[i].ref].invalid

\* C4: once LOOPBACK_INTERFACE is a NetworkInterface, dev_from_index(1) does not
\* raise; with no entry of index 1 it returns the loopback interface.
C4_LoopbackFallback ==
    (last.op = "dev_from_index" /\ last.arg = 1
        /\ LOOPBACK_INTERFACE # NoneRef) =>
        /\ last.ret # NotFound
        /\ indexed(1) = {} => last.ret = LOOPBACK_INTERFACE

\* The loopback interface is returned for index 1 while no entry has that index.
C4_Witness ==
    /\ last.op = "dev_from_index"
    /\ last.arg = 1
    /\ LOOPBACK_INTERFACE # NoneRef
    /\ indexed(1) = {}
    /\ data # <<>>
    /\ last.ret = LOOPBACK_INTERFACE

\* A load() or reload() call has just returned.
loaded == last.op \in {"load", "reload"}

\* The adapter records the call's enumerations listed.
enumerated ==
    UNION {{last.enums[n][k] : k \in 1..Len(last.enums[n])} :
             n \in 1..Len(last.enums)}

\* The registry entry that is the interface synthesized for the cache entry c.
synthesized_for(i, c) ==
    /\ data[i].key = normalize_guid(c.guid)
    /\ heap[data[i].ref].guid = normalize_guid(c.guid)
    /\ heap[data[i].ref].name = c.name
    /\ heap[data[i].ref].win_index = -1
    /\ heap[data[i].ref].description = "[Unknown] " \o c.name

\* C5 as stated: after load(), every cache entry whose identifier the OS
\* enumeration lacks is returned by dev_from_name(logical name), as the interface
\* synthesized for it (index -1, description "[Unknown] ...").
C5_CacheRoundTrip ==
    loaded =>
      \A k \in 1..Len(cache_iflist) :
        normalize_guid(cache_iflist[k].guid) \notin {a.guid : a \in enumerated} =>
          LET ret == dev_from_name(heap, data, cache_iflist[k].name)
          IN /\ ret # NotFound
             /\ \E i \in 1..Len(data) :
                  data[i].ref = ret /\ synthesized_for(i, cache_iflist[k])

\* C5 as amended: with OS access, a cache entry whose identifier is no registry
\* key when the merge loop reaches it gets a synthesized entry (index -1,
\* description "[Unknown] ..."); dev_from_name(logical name) then succeeds, and
\* returns that entry unless an earlier entry carries the same name or description.
C5_CacheRoundTripAmended ==
    (loaded /\ os_access) =>
      \A k \in 1..Len(cache_iflist) :
        (/\ normalize_guid(cache_iflist[k].guid) \notin
               {last.before[i].key : i \in 1..Len(last.before)}
         /\ \A j \in 1..(k - 1) :
               normalize_guid(cache_iflist[j].guid) #
                 normalize_guid(cache_iflist[k].guid)) =>
          LET ret == dev_from_name(heap, data, cache_iflist[k].name)
          IN \E i \in 1..Len(data) :
               /\ synthesized_for(i, cache_iflist[k])
               /\ ret # NotFound
               /\ (\A j \in named(cache_iflist[k].name) : i <= j) =>
                     ret = data[i].ref

\* Next to enumerated adapters, "nap0" is synthesized and found by its logical name.
C5_Witness ==
    /\ loaded
    /\ os_access
    /\ last.before # <<>>
    /\ \E k \in 1..Len(cache_iflist), i \in 1..Len(data) :
         /\ synthesized_for(i, cache_iflist[k])
         /\ dev_from_name(heap, data, cache_iflist[k].name) = data[i].ref

\* C7: every entry of the registry after reload() was built by that reload's
\* load(), from an enumerated adapter record or from a cache entry; none is an
\* object that existed before the call.
C7_ReloadRebuilds ==
    last.op = "reload" =>
      /\ refs(data) \cap last.old = {}
      /\ \A i \in 1..Len(data) :
           \/ \E a \in enumerated :
                /\ a.guid = data[i].key
                /\ heap[data[i].ref].guid = a.guid
                /\ heap[data[i].ref].description = a.description
                /\ heap[data[i].ref].win_index = a.win_index
                /\ heap[data[i].ref].ips = a.ips
           \/ \E k \in 1..Len(cache_iflist) :
                synthesized_for(i, cache_iflist[k])

\* After a reload the registry is filled again while an object from before the
\* reload is still alive (the loopback reference), outside the registry.
C7_Witness ==
    /\ last.op = "reload"
    /\ Len(data) >= 2
    /\ last.old # {}

\* C8: one load() call issues the service-start command at most once and
\* re-enters load() at most once, only after a start that succeeded; it returns,
\* and a registry that enumeration left empty draws a warning.
C8_ServiceStartOnce ==
    loaded =>
      /\ last.starts <= 1
      /\ last.entries <= 2
      /\ last.entries = 2 =>
           /\ last.starts = 1
           /\ \E n \in 1..Len(last.messages) :
                last.messages[n] = "Pcap service started !"
      /\ last.returned
      /\ (last.merged /\ last.before = <<>>) =>
           /\ last.messages # <<>>
           /\ last.messages[Len(last.messages)] \in
                {"Could not start the pcap service",
                 "No match between pcap and windows interfaces"}

\* The service was started, load() ran again and the registry is still empty.
C8_Witness ==
    /\ loaded
    /\ last.starts = 1
    /\ last.entries = 2
    /\ last.before = <<>>
    /\ data = <<>>
    /\ last.messages # <<>>

\* C9: the merge adds an interface only for a cache identifier that is no key of
\* the registry: the entries present before the merge keep their place, their
\* object and its attributes, and no key occurs twice.
C9_MergeSkipsPresent ==
    (loaded /\ last.merged) =>
      /\ Len(last.before) <= Len(data)
      /\ \A i \in 1..Len(last.before) :
           /\ data[i].key = last.before[i].key
           /\ data[i].ref = last.before[i].ref
           /\ heap[data[i].ref] = last.before[i].iface
      /\ \A i \in (Len(last.before) + 1)..Len(data) :
           /\ data[i].key \notin {last.before[j].key : j \in 1..Len(last.before)}
           /\ \E k \in 1..Len(cache_iflist) : synthesized_for(i, cache_iflist[k])
      /\ \A i, j \in 1..Len(data) : data[i].key = data[j].key => i = j

\* The cache names an enumerated adapter's identifier (skipped) and others (added).
C9_Witness ==
    /\ loaded
    /\ last.merged
    /\ Len(data) > Len(last.before)
    /\ \E k \in 1..Len(cache_iflist), i \in 1..Len(last.before) :
         normalize_guid(cache_iflist[k].guid) = last.before[i].key

\* C10: without OS access, load() on a fresh registry returns without
\* enumerating, starting the service or logging, and the registry stays empty.
C10_NoOsAccess ==
    (last.op = "load" /\ last.fresh /\ ~os_access) =>
      /\ last.returned
      /\ last.enums = <<>>
      /\ last.starts = 0
      /\ data = <<>>

\* load() has returned on a host without OS access whose cache is not empty.
C10_Witness ==
    /\ last.op = "load"
    /\ last.fresh
    /\ ~os_access
    /\ cache_iflist # <<>>
    /\ last.entries = 1

\* C6 as stated: when update() resolves the capture device, the interface is
\* invalid exactly when no device matched, and in every state an invalid
\* interface has no capture-device name.
C6_InvalidIffUnresolved ==
    /\ (last.op \in {"construct", "update"} /\ last.scanned) =>
         (heap[last.ref].invalid <=>
            first_match(last.devs, heap[last.ref].guid) = 0)
    /\ \A r \in DOMAIN heap :
         heap[r].invalid => heap[r].pcap_name = NoneName

\* ---------------------------------------------------------- routing claims
\* A route reader has just returned.
routes_returned == last.op \in {"read_routes", "read_routes6"}

\* The interface that owns the forward-table row at position k, or NotFound.
owner(k) ==
    dev_from_index(heap, data, LOOPBACK_INTERFACE, last.table[k].ifIndex)

\* Positions of returned routes built from the forward-table row at position k.
built_from(k) == {n \in 1..Len(last.routes) : last.routes[n].entry = k}

\* C11: the metric of every route returned by read_routes() and read_routes6()
\* is the raw metric of its forward-table row plus the owning interface's IPv4
\* metric (IPv4 table) or IPv6 metric (IPv6 table).
C11_EffectiveMetric ==
    routes_returned =>
      \A n \in 1..Len(last.routes) :
        LET route == last.routes[n]
        IN route.metric =
             last.table[route.entry].metric
             + (IF last.ipv6 THEN heap[route.iface].ipv6_metric
                ELSE heap[route.iface].ipv4_metric)

\* Raw metric 256 on the interface with address 192.168.1.50 and IPv4 metric 10
\* gives the default route the metric 266.
C11_Witness ==
    /\ last.op = "read_routes"
    /\ \E n \in 1..Len(last.routes) :
         /\ last.routes[n].metric = 266
         /\ last.table[last.routes[n].entry].metric = 256
         /\ heap[last.routes[n].iface].ip = "192.168.1.50"
         /\ heap[last.routes[n].iface].ipv4_metric = 10
         /\ heap[last.routes[n].iface].ipv6_metric # 10

\* C12: no route returned by read_routes6() has an empty candidate set, and none
\* is owned by the loopback interface with destination prefix '::'.
C12_Route6Filter ==
    last.op = "read_routes6" =>
      \A n \in 1..Len(last.routes) :
        /\ last.routes[n].cset # <<>>
        /\ ~(/\ heap[last.routes[n].iface].name = LOOPBACK_NAME
             /\ last.routes[n].dest = "::")

\* The table holds the loopback default route and a row whose candidate set is
\* empty; neither is returned.
C12_Witness ==
    /\ last.op = "read_routes6"
    /\ ~WINDOWS_XP
    /\ last.fail = "none"
    /\ Len(last.table) = 2
    /\ last.routes = <<>>
    /\ \E k \in 1..2 :
         /\ last.table[k].dest = "::"
         /\ owner(k) # NotFound
         /\ heap[owner(k)].name = LOOPBACK_NAME
    /\ \E k \in 1..2 :
         /\ owner(k) # NotFound
         /\ heap[owner(k)].name # LOOPBACK_NAME
         /\ heap[owner(k)].ip # "0.0.0.0"

\* C13: a forward-table row whose interface index dev_from_index cannot resolve,
\* or whose interface has the primary IPv4 address 0.0.0.0, yields no route; the
\* skip raises nothing and the other rows are still processed, in the IPv4 and
\* in the IPv6 builder.
C13_SkippedRows ==
    (routes_returned /\ last.fail = "none") =>
      /\ ~last.raised
      /\ \A n \in 1..Len(last.warnings) :
           last.warnings[n] \notin {"Error building scapy IPv4 routing table",
                                    "Error building scapy IPv6 routing table"}
      /\ \A k \in 1..Len(last.table) :
           /\ owner(k) = NotFound => built_from(k) = {}
           /\ (owner(k) # NotFound /\ heap[owner(k)].ip = "0.0.0.0") =>
                 built_from(k) = {}
           /\ (/\ owner(k) # NotFound
               /\ heap[owner(k)].ip # "0.0.0.0"
               /\ \/ ~last.ipv6
                  \/ /\ ~WINDOWS_XP
                     /\ heap[owner(k)].name = LOOPBACK_NAME
                     /\ last.table[k].dest # "::") =>
                 Cardinality(built_from(k)) = 1

\* The first row is skipped for the address 0.0.0.0 and the second row still
\* yields its route.
C13_Witness ==
    /\ routes_returned
    /\ last.fail = "none"
    /\ Len(last.table) = 2
    /\ owner(1) # NotFound
    /\ heap[owner(1)].ip = "0.0.0.0"
    /\ built_from(1) = {}
    /\ built_from(2) # {}

\* C14: read_routes() and read_routes6() never let an exception of the table
\* build escape: it is caught, a warning naming the table that failed is logged
\* and a list is returned.
C14_RoutesNeverRaise ==
    routes_returned =>
      /\ ~last.raised
      /\ (last.fail # "none" /\ ~(last.ipv6 /\ WINDOWS_XP)) =>
           /\ last.routes = <<>>
           /\ last.warnings =
                 <<IF last.ipv6 THEN "Error building scapy IPv6 routing table"
                   ELSE "Error building scapy IPv4 routing table">>

\* Processing a row of the IPv6 table raised; read_routes6() returned a list.
C14_Witness ==
    /\ last.op = "read_routes6"
    /\ last.fail = "route"
    /\ ~last.raised
    /\ last.warnings = <<"Error building scapy IPv6 routing table">>

\* --------------------------------------------------------- wireless claims
\* The capability check passes: the backend is Npcap and the interface is known
\* to support raw 802.11.
capable == use_npcap /\ iface.raw80211 = <<TRUE>>

\* The interface's identifier is in the allow-list answer a.
allowed(a) ==
    a # NoneName /\ contains(str_lower(a), str_lower(iface.guid))

Setters == {"setmode", "setchannel", "setfrequence", "setmodulation"}
Getters == {"mode", "channel", "frequence", "modulation"}

\* C15 as stated: ismonitor() right after a setmonitor(True) that raised no
\* capability error returns true and issues no helper query.
C15_MonitorAfterSet ==
    (last.op = "ismonitor" /\ last.follows # <<>>) =>
      /\ last.raised = "none"
      /\ last.ret.bool
      /\ last.commands = <<>>

\* C15 as amended: ismonitor() right after a setmonitor(True) that raised no
\* capability error returns what that setmonitor(True) returned (true when the
\* helper command succeeded, false when it failed), from the cache: it issues
\* no helper query and does not consult the allow-list.
C15_MonitorAfterSetAmended ==
    (last.op = "ismonitor" /\ last.follows # <<>>) =>
      /\ last.raised = "none"
      /\ last.ret = py_bool(last.follows[1])
      /\ last.commands = <<>>
      /\ last.asked = <<>>

\* setmonitor(True) succeeded and the ismonitor() after it returned true.
C15_Witness ==
    /\ last.op = "ismonitor"
    /\ last.follows = <<TRUE>>
    /\ last.ret.bool
    /\ last.commands = <<>>

\* C16 as stated: ismonitor() returns the cached value without a helper query
\* when the cache is set; on a miss it queries mode(), caches and returns whether
\* the mode is 'monitor'; when the capability check fails it returns false and
\* does not raise.
C16_Ismonitor ==
    last.op = "ismonitor" =>
      /\ last.before.cache_mode # NoneBool =>
           /\ last.raised = "none"
           /\ last.ret = py_bool(last.before.cache_mode[1])
           /\ last.commands = <<>>
      /\ (last.before.cache_mode = NoneBool /\ capable) =>
           /\ last.raised = "none"
           /\ Len(last.commands) = 1
           /\ last.commands[1].kind = "get"
           /\ last.commands[1].key = "mode"
           /\ last.ret.bool <=>
                 (/\ last.commands[1].proc.returncode = 0
                  /\ strip(last.commands[1].proc.stdout) = <<"monitor">>)
           /\ iface.cache_mode = <<last.ret.bool>>
      /\ (last.before.cache_mode = NoneBool /\ ~capable) =>
           /\ last.raised = "none"
           /\ last.ret = py_bool(FALSE)

\* C17: setmonitor(enable) issues setmode('monitor') for enable and
\* setmode('managed') otherwise, returns the command's result, caches the result
\* for enable and its negation for disable, and logs a failed command as an
\* error without raising; only a capability error is raised.
C17_Setmonitor ==
    last.op = "setmonitor" =>
      /\ last.raised \in {"none"} \cup CapabilityErrors
      /\ last.raised # "none" =>
           /\ last.commands = <<>>
           /\ last.errors = 0
           /\ iface.cache_mode = last.before.cache_mode
      /\ last.raised = "none" =>
           /\ Len(last.commands) = 1
           /\ last.commands[1].kind = "set"
           /\ last.commands[1].key = "mode"
           /\ last.commands[1].val =
                 py_str(IF last.arg.bool THEN <<"monitor">> ELSE <<"managed">>)
           /\ last.ret =
                 py_bool(not_bytes(_exec_cmd(last.commands[1].proc)))
           /\ iface.cache_mode =
                 <<IF last.arg.bool THEN last.ret.bool ELSE ~last.ret.bool>>
           /\ last.errors = (IF last.ret.bool THEN 0 ELSE 1)

\* setmonitor(False) whose helper command failed: false is returned, an error
\* is logged and the cache says monitor.
C17_Witness ==
    /\ last.op = "setmonitor"
    /\ ~last.arg.bool
    /\ last.raised = "none"
    /\ last.commands[1].proc.returncode # 0
    /\ ~last.ret.bool
    /\ last.errors = 1
    /\ iface.cache_mode = <<TRUE>>

\* C18 as stated: on a capable interface each setter returns true exactly when
\* the helper process completed successfully (exit code 0), false when it
\* failed, and never raises for a helper failure.
C18_SetterResult ==
    (last.op \in Setters /\ capable) =>
      /\ last.raised = "none"
      /\ Len(last.commands) = 1
      /\ last.ret = py_bool(last.commands[1].proc.returncode = 0)

\* C19 as stated: when the helper fails during the mode query of an ismonitor()
\* cache miss, no monitor-mode value is recorded in the cache.
C19_FailedQueryNotCached ==
    (/\ last.op = "ismonitor"
     /\ last.before.cache_mode = NoneBool
     /\ last.commands # <<>>
     /\ last.commands[1].proc.returncode # 0) =>
      iface.cache_mode = NoneBool

\* C20: a wireless getter or setter raises a capability error and issues no
\* helper command unless the backend is Npcap and the interface's identifier was
\* in the allow-list at the first check (case-insensitively); the answer of that
\* check is cached, so the allow-list is consulted at most once per interface.
C20_CapabilityCheck ==
    /\ last.op \in Getters \cup Setters =>
         /\ ~capable =>
              /\ last.raised \in CapabilityErrors
              /\ last.commands = <<>>
         /\ (last.raised \in CapabilityErrors) <=> ~capable
         /\ ~use_npcap => last.asked = <<>>
         /\ Len(last.asked) <= 1
         /\ last.asked # <<>> =>
              /\ last.before.raw80211 = NoneBool
              /\ iface.raw80211 = <<allowed(last.asked[1])>>
         /\ last.before.raw80211 # NoneBool =>
              /\ last.asked = <<>>
              /\ iface.raw80211 = last.before.raw80211
    /\ last.op # "init" => last.consults <= 1

\* A second operation on an interface found in the allow-list under another
\* letter case: the cached answer is used and the helper command is issued.
C20_Witness ==
    /\ last.op \in Getters \cup Setters
    /\ last.before.raw80211 = <<TRUE>>
    /\ last.asked = <<>>
    /\ last.consults = 1
    /\ last.commands # <<>>

\* --------------------------------------------------------- open_pcap claims
\* The positions of the steps ev in the last open_pcap call.
events(ev) == {k \in 1..Len(last.trace) : last.trace[k].ev = ev}

\* open_pcap took the branch for a known NetworkInterface under Npcap.
monitor_branch == last.op = "open_pcap" /\ use_npcap /\ last.ref # NoneRef

\* What ismonitor() returned to open_pcap.
detected == last.trace[1].arg

\* setmonitor(value) was invoked, before any open of the capture subsystem.
setmonitor_then_open ==
    \E k \in events("setmonitor") :
        /\ last.trace[k].arg = last.kargs[1]
        /\ \A j \in events("open") : k < j

\* The capture subsystem's open was called once, last, with the resolved name.
opened_once_last ==
    /\ events("open") = {Len(last.trace)}
    /\ last.trace[Len(last.trace)].name = last.name

\* C21 as stated: under Npcap with a known NetworkInterface, without a monitor
\* option the detected state is passed as the option and no set command is
\* issued; a monitor value that differs from the detected state makes
\* setmonitor(value) run before the open, an equal one does not; in every case
\* the capture subsystem's open is called exactly once, last, with the resolved
\* capture-device name.
C21_OpenPcap ==
    monitor_branch =>
      /\ last.kargs = <<>> =>
           /\ events("setmonitor") = {}
           /\ \A k \in 1..Len(last.commands) : last.commands[k].kind # "set"
           /\ \A j \in events("open") : last.trace[j].kargs = <<detected>>
      /\ (last.kargs # <<>> /\ bool(last.kargs[1]) # detected.bool) =>
           setmonitor_then_open
      /\ (last.kargs # <<>> /\ bool(last.kargs[1]) = detected.bool) =>
           events("setmonitor") = {}
      /\ opened_once_last

\* C21 as amended: the monitor value is compared with the detected state by
\* identity, so setmonitor(value) runs exactly when the value is not the very
\* boolean ismonitor() returned; the open is called once, last, with the
\* resolved name and the caller's option, unless setmonitor raised the
\* capability error (the interface does not support raw 802.11 and monitor mode
\* was asked for), which propagates before any open.
C21_OpenPcapAmended ==
    monitor_branch =>
      /\ last.kargs = <<>> =>
           /\ events("setmonitor") = {}
           /\ \A k \in 1..Len(last.commands) : last.commands[k].kind # "set"
           /\ \A j \in events("open") : last.trace[j].kargs = <<detected>>
      /\ (last.kargs # <<>> /\ last.kargs[1] # detected) =>
           /\ setmonitor_then_open
           /\ Cardinality(events("setmonitor")) = 1
      /\ (last.kargs # <<>> /\ last.kargs[1] = detected) =>
           events("setmonitor") = {}
      /\ last.kargs # <<>> =>
           \A j \in events("open") : last.trace[j].kargs = last.kargs
      /\ last.raised \in {"none", "Scapy_Exception"}
      /\ last.raised = "none" => opened_once_last
      /\ last.raised = "Scapy_Exception" =>
           /\ events("open") = {}
           /\ events("setmonitor") = {Len(last.trace)}
           /\ iface.raw80211 = <<FALSE>>
           /\ last.commands = <<>>
      /\ (events("setmonitor") # {} /\ iface.raw80211 = <<TRUE>>) =>
           last.raised = "none"

\* open_pcap(iface, monitor=True) while the interface is in managed mode on
\* Python 2: the mode is queried, setmonitor(True) switches it and the capture
\* handle is opened last.
C21_Witness ==
    /\ monitor_branch
    /\ last.kargs = <<py_bool(TRUE)>>
    /\ detected = py_bool(FALSE)
    /\ Len(last.trace) = 3
    /\ last.trace[2].ev = "setmonitor"
    /\ last.trace[3] = event("open", py_none, <<NPF, "{A}">>, <<py_bool(TRUE)>>)
    /\ Len(last.commands) = 2
    /\ last.commands[2].kind = "set"
    /\ iface.cache_mode = <<TRUE>>

\* ----------------------------------------------------- address claims
\* The interface followed through its construction and updates.
updated == last.op \in {"construct", "update"}

\* C22 as stated: after construction or update() of an interface whose name is
\* the loopback name, its MAC is 00:00:00:00:00:00 and its primary IPv4 address
\* is 127.0.0.1, whatever the OS reported.
C22_Loopback ==
    (updated /\ heap[1].name = LOOPBACK_NAME) =>
      /\ heap[1].mac = "00:00:00:00:00:00"
      /\ heap[1].ip = "127.0.0.1"

\* C22 as amended: under Npcap the loopback's MAC is 00:00:00:00:00:00 and its
\* primary IPv4 address 127.0.0.1 whatever the OS reported; under another
\* backend its MAC is the reported one and its primary IPv4 address is the
\* first reported address without a colon, else the address it had before,
\* else 127.0.0.1.
C22_LoopbackAmended ==
    (updated /\ heap[1].name = LOOPBACK_NAME) =>
      /\ use_npcap =>
           /\ heap[1].mac = "00:00:00:00:00:00"
           /\ heap[1].ip = "127.0.0.1"
      /\ ~use_npcap =>
           /\ heap[1].mac = last.mac
           /\ heap[1].ip =
                IF \E k \in 1..Len(heap[1].ips) : ~has_colon(heap[1].ips[k])
                THEN heap[1].ips[CHOOSE k \in 1..Len(heap[1].ips) :
                                   /\ ~has_colon(heap[1].ips[k])
                                   /\ \A j \in 1..(k - 1) : has_colon(heap[1].ips[j])]
                ELSE IF truthy(last.ip) THEN last.ip
                ELSE "127.0.0.1"

\* Under Npcap the loopback adapter was updated from a record with an empty MAC
\* and the address 169.254.1.1: the MAC and the primary address are the forced
\* ones.
C22_Witness ==
    /\ last.op = "update"
    /\ use_npcap
    /\ heap[1].name = LOOPBACK_NAME
    /\ last.mac = ""
    /\ heap[1].ips = <<"::1", "169.254.1.1">>
    /\ heap[1].mac = "00:00:00:00:00:00"
    /\ heap[1].ip = "127.0.0.1"

\* C26 as stated: after any sequence of update() calls on a non-loopback
\* interface, its primary IPv4 address is the first address without a colon in
\* its current IP list, and is unset when the list has no such address.
C26_PrimaryIPv4 ==
    (updated /\ heap[1].name # LOOPBACK_NAME) =>
      heap[1].ip =
        IF \E k \in 1..Len(heap[1].ips) : ~has_colon(heap[1].ips[k])
        THEN heap[1].ips[CHOOSE k \in 1..Len(heap[1].ips) :
                           /\ ~has_colon(heap[1].ips[k])
                           /\ \A j \in 1..(k - 1) : has_colon(heap[1].ips[j])]
        ELSE NoneStr

\* ------------------------------------------------------- table claims
\* The tables as the specification gives them, by position n + 1.
ModeNames ==
    <<"managed", "monitor", "master", "wfd_device", "wfd_owner", "wfd_client">>

ModulationNames ==
    <<"dsss", "fhss", "irbaseband", "ofdm", "hrdss", "erp", "ht", "vht", "ihv",
      "mimo-ofdm", "mimo-ofdm">>

\* The string the helper must get for the argument x under the table names.
sent(names, x) ==
    IF x.type = "int"
    THEN py_str(<<IF x.int \in 0..(Len(names) - 1)
                  THEN names[x.int + 1] ELSE "unknown">>)
    ELSE x

\* C23: setmode(m) sends the helper the table's mode string for an integer m in
\* 0..5, 'unknown' for any other integer and m itself for a string;
\* setmodulation does the same through its table of 0..10, where 9 and 10 both
\* give 'mimo-ofdm'.
C23_Tables ==
    /\ (last.op = "setmode" /\ last.raised = "none") =>
         /\ Len(last.commands) = 1
         /\ last.commands[1].kind = "set"
         /\ last.commands[1].key = "mode"
         /\ last.commands[1].val = sent(ModeNames, last.arg)
    /\ (last.op = "setmodulation" /\ last.raised = "none") =>
         /\ Len(last.commands) = 1
         /\ last.commands[1].kind = "set"
         /\ last.commands[1].key = "modu"
         /\ last.commands[1].val = sent(ModulationNames, last.arg)

\* setmode(6), an integer outside the table, sent the helper 'unknown'.
C23_Witness ==
    /\ last.op = "setmode"
    /\ last.arg = py_int(6)
    /\ last.raised = "none"
    /\ last.commands[1].val = py_str(<<"unknown">>)

\* ------------------------------------------------- normalisation claims
\* Two hex digits for the bytes of the raw records.
hex_of(byte) ==
    CASE byte = 0 -> "00" [] byte = 1 -> "01" [] byte = 10 -> "0a"
      [] byte = 35 -> "23" [] byte = 69 -> "45" [] byte = 103 -> "67"
      [] byte = 171 -> "ab" [] byte = 255 -> "ff"

\* C24: a raw adapter record whose physical-address length is not 6 gives an
\* InterfaceInfo with the empty string as MAC; one of length 6 gives the
\* colon-separated two-digit hex form of its six address bytes.
C24_GetMac ==
    last.op = "get_windows_if_list" =>
      /\ Len(last.ret) = Len(last.raw)
      /\ \A k \in 1..Len(last.raw) :
           LET x == last.raw[k]
               a == x.physical_address
           IN IF x.physical_address_length # 6
              THEN last.ret[k].mac = ""
              ELSE last.ret[k].mac =
                     hex_of(a[1]) \o ":" \o hex_of(a[2]) \o ":" \o hex_of(a[3])
                       \o ":" \o hex_of(a[4]) \o ":" \o hex_of(a[5])
                       \o ":" \o hex_of(a[6])

\* A record of address length 8 got the empty MAC.
C24_Witness ==
    /\ last.op = "get_windows_if_list"
    /\ last.raw[1].physical_address_length = 8
    /\ last.raw[1].physical_address[1] = 10
    /\ last.ret[1].mac = ""

\* ------------------------------------------------ monitor cache claims
\* The cache states: unknown (unset), managed and monitor.
Unknown == NoneBool
Managed == <<FALSE>>
Monitor == <<TRUE>>

\* The state setmonitor(enable) aims at.
target(enable) == IF enable THEN Monitor ELSE Managed

\* C25 as stated: when the set command of setmonitor succeeds the cache advances
\* to the requested target state (monitor for enable, managed for disable), and
\* when it fails the cache reverts to unknown.
C25_CacheMachine ==
    (last.op = "setmonitor" /\ last.raised = "none") =>
      /\ last.ret.bool => iface.cache_mode = target(last.arg.bool)
      /\ ~last.ret.bool => iface.cache_mode = Unknown

\* C25 as amended: when the set command succeeds the cache advances to the
\* target state; when it fails the cache goes to the state opposite to the
\* target (managed after a failed enable, monitor after a failed disable) and is
\* never unknown after a setmonitor that returned; a capability error leaves
\* the cache as it was.
C25_CacheMachineAmended ==
    last.op = "setmonitor" =>
      /\ (last.raised = "none" /\ last.ret.bool) =>
           iface.cache_mode = target(last.arg.bool)
      /\ (last.raised = "none" /\ ~last.ret.bool) =>
           iface.cache_mode = target(~last.arg.bool)
      /\ last.raised = "none" => iface.cache_mode # Unknown
      /\ last.raised # "none" => iface.cache_mode = last.before.cache_mode

\* With the cache unknown, setmonitor(True) whose set command failed left the
\* cache at managed.
C25_Witness ==
    /\ last.op = "setmonitor"
    /\ last.arg.bool
    /\ last.raised = "none"
    /\ ~last.ret.bool
    /\ last.commands[1].proc.returncode # 0
    /\ last.before.cache_mode = Unknown
    /\ iface.cache_mode = Managed

\* C27 as stated: after any sequence of setmode, setmonitor and ismonitor calls
\* on a capable interface whose helper commands all succeeded, a set mode cache
\* agrees with the adapter's mode: ismonitor() returns true if and only if the
\* mode last successfully set on the adapter is 'monitor'.
C27_CacheAgrees ==
    (/\ last.op = "ismonitor"
     /\ capable
     /\ last.all_ok
     /\ last.mode_set # <<>>
     /\ last.before.cache_mode # Unknown) =>
      /\ last.raised = "none"
      /\ last.ret.bool <=> (last.mode_set = <<"monitor">>)

\* ------------------------------------------------------ registry claims
\* C28 as stated: for every interface held in the registry, dev_from_pcapname()
\* of the capture-device name pcapname() returns for it is that same interface,
\* so get_if_raw_hwaddr(iface) yields the MAC of iface itself and never that of
\* another interface.
C28_PcapnameRoundTrip ==
    last.op = "get_if_raw_hwaddr" =>
      /\ last.raised = "none"
      /\ last.found = last.arg
      /\ last.ret = mac2str(heap[last.arg].mac)

\* C29 as stated: after any sequence of load() and reload() calls, every
\* interface returned by dev_from_name, dev_from_pcapname or dev_from_index is
\* an entry currently held in the registry, never an object an earlier reload
\* discarded.  (Objects built by route_add_loopback() are left aside: they are
\* not made by load() or reload().)
C29_LookupsReturnEntries ==
    (/\ last.op \in {"dev_from_name", "dev_from_pcapname", "dev_from_index"}
     /\ last.ret # NotFound
     /\ heap[last.ret].guid # LOOPBACK_GUID) =>
      last.ret \in refs(data)

====
